---- MODULE Spec2Model ----
(***************************************************************************)
(* A model of the Bali digital notary (src/src/DigitalNotary.js) and of    *)
(* the software security module it drives (src/src/v2/SSM.js).             *)
(*                                                                         *)
(* Spec     : a caller drives the notary; the notary drives the SSM.       *)
(* SSMSpec  : a caller drives the security module directly.                *)
(*                                                                         *)
(* Keys are numbered: the key pair n has the public key n and the private  *)
(* key -n; 0 stands for an attribute that is not there.  Catalogs keep     *)
(* their attributes in order (keys, vals) and carry their parameters.      *)
(***************************************************************************)
EXTENDS Integers, Sequences, FiniteSets, TLC

VARIABLES
    now,                \* the wall clock read by bali.moment()
    nextKey,            \* the next key pair the random seed yields
    nextTag,            \* the next tag bali.tag() yields
    ssmFile,            \* SSMv2.bali: the persisted SSM configuration
    ssmConfig,          \* SSM: var configuration
    ssmController,      \* SSM: var controller (its current state)
    notaryFile,         \* <account>.bali: the persisted notary configuration
    notaryConfig,       \* DigitalNotary: var configuration
    notaryController,   \* DigitalNotary: var controller (its current state)
    heldDoc,            \* the caller's copy of the last notarized document
    heldCert,           \* the caller's copy of the last certificate returned
    heldKey,            \* the caller's copies of the public keys the SSM returned
    result,             \* the operation just called and what it gave back
    calls,              \* the calls in flight: where each stands and what it holds
    legacy              \* the v1 NotaryKey object and what its caller holds

vars == <<now, nextKey, nextTag, ssmFile, ssmConfig, ssmController,
          notaryFile, notaryConfig, notaryController, heldDoc, heldCert, heldKey,
          result, calls, legacy>>

ssmVars == <<ssmFile, ssmConfig, ssmController>>
notaryVars == <<notaryFile, notaryConfig, notaryController>>

(***************************************************************************)
(* Bounds                                                                  *)
(***************************************************************************)
MaxKeys == 2        \* key pairs the seed source hands out in one run
MaxTags == 4        \* tags bali.tag() hands out in one run
MaxTime == 1        \* last reading of the clock
MaxContent == 1     \* user components are numbered 1..MaxContent
MaxCalls == 2       \* calls the caller who does not await issues in one run
MaxFaults == 1      \* promises the configurator, signer and hash reject in one run
MaxSeals == 2       \* seals the caller of the v1 notary key has put on one document

\* the tag of the account that owns the notary
Account == 0

(***************************************************************************)
(* Constants of the source                                                 *)
(***************************************************************************)
PROTOCOL == "v1"

REQUESTS == <<"$generateKey", "$activateKey", "$getCitation", "$notarizeComponent", "$refreshKey">>

\* variant of STATES: getCitation is let through in limited
STATES_getCitationInLimited ==
    [limited |-> <<"pending", "undefined", "limited", "undefined", "undefined">>,
     pending |-> <<"undefined", "enabled", "undefined", "pending", "undefined">>,
     enabled |-> <<"undefined", "undefined", "enabled", "enabled", "enabled">>]

\* variant of STATES: notarizeComponent in pending leads to enabled
STATES_notarizeEnables ==
    [limited |-> <<"pending", "undefined", "undefined", "undefined", "undefined">>,
     pending |-> <<"undefined", "enabled", "undefined", "enabled", "undefined">>,
     enabled |-> <<"undefined", "undefined", "enabled", "enabled", "enabled">>]

STATES ==
    [limited |-> <<"pending", "undefined", "undefined", "undefined", "undefined">>,
     pending |-> <<"undefined", "enabled", "undefined", "pending", "undefined">>,
     enabled |-> <<"undefined", "undefined", "enabled", "enabled", "enabled">>]

SSM_REQUESTS == <<"$generateKeys", "$signBytes", "$rotateKeys">>

\* variant of STATES: signBytes is let through in keyless
SSM_STATES_signInKeyless ==
    [keyless |-> <<"loneKey", "keyless", "undefined">>,
     loneKey |-> <<"undefined", "loneKey", "twoKeys">>,
     twoKeys |-> <<"undefined", "loneKey", "undefined">>]

\* variant of STATES: signBytes in twoKeys stays in twoKeys
SSM_STATES_signKeepsTwoKeys ==
    [keyless |-> <<"loneKey", "undefined", "undefined">>,
     loneKey |-> <<"undefined", "loneKey", "twoKeys">>,
     twoKeys |-> <<"undefined", "twoKeys", "undefined">>]

SSM_STATES ==
    [keyless |-> <<"loneKey", "undefined", "undefined">>,
     loneKey |-> <<"undefined", "loneKey", "twoKeys">>,
     twoKeys |-> <<"undefined", "loneKey", "undefined">>]

(***************************************************************************)
(* bali.controller(requests, states, current): the finite state machine    *)
(***************************************************************************)
IndexOf(requests, event) == CHOOSE i \in 1..Len(requests) : requests[i] = event

\* the entry of the table for (current, event); "undefined" when there is none
NextState(requests, states, current, event) == states[current][IndexOf(requests, event)]

\* controller.validateEvent(event) and controller.transitionState(event) both
\* throw $invalidEvent when the table has no entry
EventAllowed(requests, states, current, event) ==
    NextState(requests, states, current, event) # "undefined"

(***************************************************************************)
(* Outcomes: "ok", or the chain of exception kinds, outermost first        *)
(***************************************************************************)
Ok == <<>>
Wrap(kind, cause) == <<kind>> \o cause
Succeeded(r) == r.outcome = Ok
\* the exception at the bottom of the chain of causes
RootCause(r) == IF r.outcome = Ok THEN "none" ELSE r.outcome[Len(r.outcome)]
FailsWith(r, kind) == RootCause(r) = kind

(***************************************************************************)
(* The structured values of the framework, as far as the notary uses them  *)
(***************************************************************************)
NoParameters == [size |-> 0]

\* bali.catalog(attributes, parameters): the attributes in the order given
Catalog(keys, vals, params) ==
    [type |-> "catalog", keys |-> keys, vals |-> vals, params |-> params]

\* bali.pattern.NONE
NONE == [type |-> "pattern", keys |-> <<>>, vals |-> <<>>, params |-> NoParameters]

\* the JavaScript value undefined, where a catalog is expected
Undefined == [type |-> "undefined", keys |-> <<>>, vals |-> <<>>, params |-> NoParameters]

HasKey(catalog, key) == \E i \in 1..Len(catalog.keys) : catalog.keys[i] = key

\* catalog.getValue(key), for a key the catalog has
GetValue(catalog, key) ==
    catalog.vals[CHOOSE i \in 1..Len(catalog.keys) : catalog.keys[i] = key]

\* catalog.getParameter(key)
GetParameter(catalog, key) == catalog.params[key]

\* whether the catalog is parameterized with the key
HasParameter(catalog, key) == key \in DOMAIN catalog.params

\* catalog.setValue(key, value): replaces the value of the key, or adds the
\* association at the end
SetValue(catalog, key, value) ==
    IF HasKey(catalog, key)
    THEN [catalog EXCEPT !.vals =
            [i \in 1..Len(catalog.vals) |->
                IF catalog.keys[i] = key THEN value ELSE catalog.vals[i]]]
    ELSE [catalog EXCEPT !.keys = Append(catalog.keys, key),
                         !.vals = Append(catalog.vals, value)]

\* the positions of the listed keys in the catalog, in the order of the list
RECURSIVE Positions(_, _)
Positions(catalog, keys) ==
    IF keys = <<>> THEN <<>>
    ELSE LET rest == Positions(catalog, Tail(keys))
         IN  IF HasKey(catalog, Head(keys))
             THEN <<CHOOSE i \in 1..Len(catalog.keys) : catalog.keys[i] = Head(keys)>> \o rest
             ELSE rest

\* bali.catalog.extraction(catalog, keys): a new catalog with the listed
\* attributes of the catalog, in the order of the list, and its parameters
Extraction(catalog, keys) ==
    LET at == Positions(catalog, keys)
    IN  [type |-> "catalog",
         keys |-> [i \in 1..Len(at) |-> catalog.keys[at[i]]],
         vals |-> [i \in 1..Len(at) |-> catalog.vals[at[i]]],
         params |-> catalog.params]

\* Buffer.from(catalog.toString(), 'utf8'): the canonical text lists the
\* associations in order, then the parameters
Bytes(catalog) ==
    [attributes |-> [i \in 1..Len(catalog.keys) |-> <<catalog.keys[i], catalog.vals[i]>>],
     parameters |-> catalog.params]

\* variant of isEqualTo: only the kinds of the two values are compared
IsEqualTo_sameType(a, b) == a.type = b.type

\* component.isEqualTo(other)
IsEqualTo(a, b) ==
    /\ a.type = b.type
    /\ a.keys = b.keys
    /\ a.params = b.params
    /\ a.vals = b.vals

\* variant of nextVersion: the version is not advanced
NextVersion_same(version) == version

\* version.nextVersion(): v1 -> v2 -> ...
NextVersion(version) == version + 1

\* bali.version(): the initial version v1
InitialVersion == 1

(***************************************************************************)
(* Cryptography of the security module                                     *)
(***************************************************************************)
PublicKey(pair) == pair
PrivateKey(pair) == 0 - pair

\* signer.sign(bytes, publicKey, privateKey): ed25519 mixes the public key
\* into the signature, so a mismatched pair signs for nobody
Sign(bytes, publicKey, privateKey) ==
    [signed |-> bytes,
     signer |-> IF privateKey = 0 - publicKey THEN publicKey ELSE 0]

\* variant of verify: any key's signature of the bytes is accepted
Verify_anySigner(signature, bytes, publicKey) == signature.signed = bytes

\* signer.verify(signature, bytes, publicKey)
Verify(signature, bytes, publicKey) ==
    /\ signature.signer = publicKey
    /\ signature.signed = bytes

\* hasher.createHash('sha512').update(bytes).digest(), taken as collision free
Hash(bytes) == [sha512 |-> bytes]

(***************************************************************************)
(* The security module (src/src/v2/SSM.js)                                 *)
(*                                                                         *)
(* An SSM is [file, config, controller]; an operation gives back the SSM   *)
(* it leaves behind, its outcome and the value it returns.                 *)
(***************************************************************************)
\* no configuration: the file is missing, or var configuration is undefined
NoSsmConfig ==
    [tag |-> 0, state |-> "undefined", publicKey |-> 0, privateKey |-> 0,
     previousPublicKey |-> 0, previousPrivateKey |-> 0]

\* loadConfiguration, with the controller the callers build from it: nothing
\* happens while var configuration is set; a missing file is replaced by a
\* keyless configuration with a new random tag, which is stored at once
SsmLoad(ssm, tag) ==
    IF ssm.config # NoSsmConfig THEN ssm
    ELSE IF ssm.file # NoSsmConfig
         THEN [file |-> ssm.file, config |-> ssm.file, controller |-> ssm.file.state]
         ELSE LET fresh == [NoSsmConfig EXCEPT !.tag = tag, !.state = "keyless"]
              IN  [file |-> fresh, config |-> fresh, controller |-> "keyless"]

\* what a failed call leaves in the place of its value
NoKey == PublicKey(0)
NoSignature == [signed |-> Bytes(Undefined), signer |-> 0]

\* the catch block of every SSM method: the cause wrapped in $unexpected
SsmFailure(ssm, cause, nothing) ==
    [ssm |-> ssm, outcome |-> Wrap("unexpected", <<cause>>), value |-> nothing]

\* storeConfiguration after the transition: file, configuration and
\* controller all hold the new configuration
SsmStored(configuration) ==
    [file |-> configuration, config |-> configuration, controller |-> configuration.state]

\* variant of generateKeys: the key returned is the private one
SsmGenerateKeys_returnsPrivate(ssm, tag, pair) ==
    LET loaded == SsmLoad(ssm, tag)
    IN  IF ~EventAllowed(SSM_REQUESTS, SSM_STATES, loaded.controller, "$generateKeys")
        THEN SsmFailure(loaded, "invalidEvent", NoKey)
        ELSE LET configuration ==
                    [loaded.config EXCEPT
                        !.publicKey = PublicKey(pair),
                        !.privateKey = PrivateKey(pair),
                        !.state = NextState(SSM_REQUESTS, SSM_STATES, loaded.controller, "$generateKeys")]
             IN  [ssm |-> SsmStored(configuration), outcome |-> Ok,
                  value |-> configuration.privateKey]

\* SSM.generateKeys()
SsmGenerateKeys(ssm, tag, pair) ==
    LET loaded == SsmLoad(ssm, tag)
    IN  IF ~EventAllowed(SSM_REQUESTS, SSM_STATES, loaded.controller, "$generateKeys")
        THEN SsmFailure(loaded, "invalidEvent", NoKey)
        ELSE LET configuration ==
                    [loaded.config EXCEPT
                        !.publicKey = PublicKey(pair),
                        !.privateKey = PrivateKey(pair),
                        !.state = NextState(SSM_REQUESTS, SSM_STATES, loaded.controller, "$generateKeys")]
             IN  [ssm |-> SsmStored(configuration), outcome |-> Ok,
                  value |-> configuration.publicKey]

\* variant of rotateKeys: the public key returned is the one rotated out
SsmRotateKeys_returnsPrevious(ssm, tag, pair) ==
    LET loaded == SsmLoad(ssm, tag)
    IN  IF ~EventAllowed(SSM_REQUESTS, SSM_STATES, loaded.controller, "$rotateKeys")
        THEN SsmFailure(loaded, "invalidEvent", NoKey)
        ELSE LET configuration ==
                    [loaded.config EXCEPT
                        !.previousPublicKey = loaded.config.publicKey,
                        !.previousPrivateKey = loaded.config.privateKey,
                        !.publicKey = PublicKey(pair),
                        !.privateKey = PrivateKey(pair),
                        !.state = NextState(SSM_REQUESTS, SSM_STATES, loaded.controller, "$rotateKeys")]
             IN  [ssm |-> SsmStored(configuration), outcome |-> Ok,
                  value |-> configuration.previousPublicKey]

\* SSM.rotateKeys()
SsmRotateKeys(ssm, tag, pair) ==
    LET loaded == SsmLoad(ssm, tag)
    IN  IF ~EventAllowed(SSM_REQUESTS, SSM_STATES, loaded.controller, "$rotateKeys")
        THEN SsmFailure(loaded, "invalidEvent", NoKey)
        ELSE LET configuration ==
                    [loaded.config EXCEPT
                        !.previousPublicKey = loaded.config.publicKey,
                        !.previousPrivateKey = loaded.config.privateKey,
                        !.publicKey = PublicKey(pair),
                        !.privateKey = PrivateKey(pair),
                        !.state = NextState(SSM_REQUESTS, SSM_STATES, loaded.controller, "$rotateKeys")]
             IN  [ssm |-> SsmStored(configuration), outcome |-> Ok,
                  value |-> configuration.publicKey]

\* variant of the key selection: always the current pair
SigningKeys_current(configuration) ==
    [publicKey |-> configuration.publicKey,
     privateKey |-> configuration.privateKey,
     remaining |-> configuration]

\* variant of the key selection: the previous pair is not removed
SigningKeys_keepPrevious(configuration) ==
    IF configuration.previousPublicKey # 0
    THEN [publicKey |-> configuration.previousPublicKey,
          privateKey |-> configuration.previousPrivateKey,
          remaining |-> configuration]
    ELSE [publicKey |-> configuration.publicKey,
          privateKey |-> configuration.privateKey,
          remaining |-> configuration]

\* signBytes, "retrieve the keys": the previous pair if there is one, which
\* is then removed from the configuration, else the current pair
SigningKeys(configuration) ==
    IF configuration.previousPublicKey # 0
    THEN [publicKey |-> configuration.previousPublicKey,
          privateKey |-> configuration.previousPrivateKey,
          remaining |-> [configuration EXCEPT !.previousPublicKey = 0,
                                              !.previousPrivateKey = 0]]
    ELSE [publicKey |-> configuration.publicKey,
          privateKey |-> configuration.privateKey,
          remaining |-> configuration]

\* SSM.signBytes(bytes)
SsmSignBytes(ssm, tag, bytes) ==
    LET loaded == SsmLoad(ssm, tag)
    IN  IF ~EventAllowed(SSM_REQUESTS, SSM_STATES, loaded.controller, "$signBytes")
        THEN SsmFailure(loaded, "invalidEvent", NoSignature)
        ELSE LET keys == SigningKeys(loaded.config)
                 signature == Sign(bytes, keys.publicKey, keys.privateKey)
                 configuration ==
                    [keys.remaining EXCEPT
                        !.state = NextState(SSM_REQUESTS, SSM_STATES, loaded.controller, "$signBytes")]
             IN  [ssm |-> SsmStored(configuration), outcome |-> Ok, value |-> signature]

\* variant of eraseKeys: var configuration keeps its value
SsmEraseKeys_keepsConfiguration(ssm) ==
    [ssm |-> [file |-> NoSsmConfig, config |-> ssm.config, controller |-> ssm.controller],
     outcome |-> Ok, value |-> TRUE]

\* SSM.eraseKeys(): the file is deleted and var configuration is undefined;
\* the controller object stays until the next load replaces it
SsmEraseKeys(ssm) ==
    [ssm |-> [file |-> NoSsmConfig, config |-> NoSsmConfig, controller |-> ssm.controller],
     outcome |-> Ok, value |-> TRUE]

\* SSM.getTag()
SsmGetTag(ssm, tag) ==
    LET loaded == SsmLoad(ssm, tag)
    IN  [ssm |-> loaded, outcome |-> Ok, value |-> loaded.config.tag]

\* SSM.digestBytes(bytes)
SsmDigestBytes(bytes) == Hash(bytes)

\* SSM.validSignature(aPublicKey, signature, bytes)
SsmValidSignature(aPublicKey, signature, bytes) == Verify(signature, bytes, aPublicKey)

(***************************************************************************)
(* The digital notary (src/src/DigitalNotary.js)                           *)
(*                                                                         *)
(* A notary is [file, config, controller]; an operation gives back the     *)
(* notary and the SSM it leaves behind, its outcome and its value.         *)
(***************************************************************************)
NoNotaryConfig == [state |-> "undefined", certificate |-> Undefined, citation |-> Undefined]

\* loadConfiguration, with the controller the callers build from it: a
\* missing file is replaced by a limited configuration, stored at once
NotaryLoad(notary) ==
    IF notary.config # NoNotaryConfig THEN notary
    ELSE IF notary.file # NoNotaryConfig
         THEN [file |-> notary.file, config |-> notary.file, controller |-> notary.file.state]
         ELSE LET fresh == [NoNotaryConfig EXCEPT !.state = "limited"]
              IN  [file |-> fresh, config |-> fresh, controller |-> "limited"]

\* storeConfiguration after the transition
NotaryStored(configuration) ==
    [file |-> configuration, config |-> configuration, controller |-> configuration.state]

\* variant of the catch block: the cause is thrown as it is
NotaryFailure_direct(notary, ssm, cause) ==
    [notary |-> notary, ssm |-> ssm, outcome |-> cause, value |-> Undefined]

\* the catch block of every notary method: the cause wrapped in $unexpected
NotaryFailure(notary, ssm, cause) ==
    [notary |-> notary, ssm |-> ssm, outcome |-> Wrap("unexpected", cause),
     value |-> Undefined]

CertificateType == "/bali/notary/Certificate/v1"
DocumentType == "/bali/notary/Document/v1"
CitationType == "/bali/notary/Citation/v1"
PublicPermissions == "/bali/permissions/public/v1"

\* the certificate component built by generateKey and by refreshKey
CertificateComponent(timestamp, publicKey, tag, version, previous) ==
    Catalog(<<"$protocol", "$timestamp", "$account", "$publicKey">>,
            <<PROTOCOL, timestamp, Account, publicKey>>,
            [type |-> CertificateType, tag |-> tag, version |-> version,
             permissions |-> PublicPermissions, previous |-> previous])

\* the document built by notarizeComponent and by refreshKey, not yet signed
UnsignedDocument(component, timestamp, certificate) ==
    Catalog(<<"$component", "$protocol", "$timestamp", "$certificate">>,
            <<component, PROTOCOL, timestamp, certificate>>,
            [type |-> DocumentType])

\* the citation built by activateKey, refreshKey and citeDocument
Citation(timestamp, tag, version, digest) ==
    Catalog(<<"$protocol", "$timestamp", "$tag", "$version", "$digest">>,
            <<PROTOCOL, timestamp, tag, version, digest>>,
            [type |-> CitationType])

\* variant of getCitation: $certificate is returned in place of $citation
GetCitation_certificate(notary, ssm) ==
    LET loaded == NotaryLoad(notary)
    IN  IF ~EventAllowed(REQUESTS, STATES, loaded.controller, "$getCitation")
        THEN NotaryFailure(loaded, ssm, <<"invalidEvent">>)
        ELSE LET configuration ==
                    [loaded.config EXCEPT
                        !.state = NextState(REQUESTS, STATES, loaded.controller, "$getCitation")]
             IN  [notary |-> NotaryStored(configuration), ssm |-> ssm, outcome |-> Ok,
                  value |-> configuration.certificate]

\* DigitalNotary.getCitation()
GetCitation(notary, ssm) ==
    LET loaded == NotaryLoad(notary)
    IN  IF ~EventAllowed(REQUESTS, STATES, loaded.controller, "$getCitation")
        THEN NotaryFailure(loaded, ssm, <<"invalidEvent">>)
        ELSE LET configuration ==
                    [loaded.config EXCEPT
                        !.state = NextState(REQUESTS, STATES, loaded.controller, "$getCitation")]
             IN  [notary |-> NotaryStored(configuration), ssm |-> ssm, outcome |-> Ok,
                  value |-> configuration.citation]

\* DigitalNotary.generateKey()
GenerateKey(notary, ssm, timestamp, ssmTag, tag, pair) ==
    LET loaded == NotaryLoad(notary)
    IN  IF ~EventAllowed(REQUESTS, STATES, loaded.controller, "$generateKey")
        THEN NotaryFailure(loaded, ssm, <<"invalidEvent">>)
        ELSE LET generated == SsmGenerateKeys(ssm, ssmTag, pair)
             IN  IF ~Succeeded(generated)
                 THEN NotaryFailure(loaded, generated.ssm, generated.outcome)
                 ELSE LET certificate ==
                            CertificateComponent(timestamp, generated.value, tag,
                                                 InitialVersion, NONE)
                          configuration ==
                            [loaded.config EXCEPT
                                !.certificate = certificate,
                                !.state = NextState(REQUESTS, STATES, loaded.controller, "$generateKey")]
                      IN  [notary |-> NotaryStored(configuration), ssm |-> generated.ssm,
                           outcome |-> Ok, value |-> certificate]

\* variant of the cited bytes: the text of the certificate's component
CitedBytes_component(certificate) == Bytes(GetValue(certificate, "$component"))

\* Buffer.from(certificate.toString(), 'utf8'): the bytes activateKey and
\* refreshKey take the digest of, the whole notarized certificate
CitedBytes(certificate) == Bytes(certificate)

\* variant of activateKey: the signature of the document is verified with
\* the public key of its component
ActivateKey_verifiesSignature(notary, ssm, certificate, timestamp) ==
    LET loaded == NotaryLoad(notary)
    IN  IF ~EventAllowed(REQUESTS, STATES, loaded.controller, "$activateKey")
        THEN NotaryFailure(loaded, ssm, <<"invalidEvent">>)
        ELSE LET component == IF HasKey(certificate, "$component")
                              THEN GetValue(certificate, "$component")
                              ELSE Undefined
             IN  IF \/ ~IsEqualTo(loaded.config.certificate, component)
                    \/ ~SsmValidSignature(GetValue(component, "$publicKey"),
                                          GetValue(certificate, "$signature"),
                                          Bytes(Extraction(certificate,
                                                           <<"$component", "$protocol",
                                                             "$timestamp", "$certificate">>)))
                 THEN NotaryFailure(loaded, ssm, <<"invalidCertificate">>)
                 ELSE LET digest == SsmDigestBytes(CitedBytes(certificate))
                          citation == Citation(timestamp, GetParameter(component, "tag"),
                                               GetParameter(component, "version"), digest)
                          configuration ==
                            [loaded.config EXCEPT
                                !.citation = citation,
                                !.certificate = certificate,
                                !.state = NextState(REQUESTS, STATES, loaded.controller, "$activateKey")]
                      IN  [notary |-> NotaryStored(configuration), ssm |-> ssm,
                           outcome |-> Ok, value |-> citation]

\* DigitalNotary.activateKey(certificate), called with a notarized document
ActivateKey(notary, ssm, certificate, timestamp) ==
    LET loaded == NotaryLoad(notary)
    IN  IF ~EventAllowed(REQUESTS, STATES, loaded.controller, "$activateKey")
        THEN NotaryFailure(loaded, ssm, <<"invalidEvent">>)
        ELSE LET component == IF HasKey(certificate, "$component")
                              THEN GetValue(certificate, "$component")
                              ELSE Undefined
             IN  IF ~IsEqualTo(loaded.config.certificate, component)
                 THEN NotaryFailure(loaded, ssm, <<"invalidCertificate">>)
                 ELSE LET digest == SsmDigestBytes(CitedBytes(certificate))
                          citation == Citation(timestamp, GetParameter(component, "tag"),
                                               GetParameter(component, "version"), digest)
                          configuration ==
                            [loaded.config EXCEPT
                                !.citation = citation,
                                !.certificate = certificate,
                                !.state = NextState(REQUESTS, STATES, loaded.controller, "$activateKey")]
                      IN  [notary |-> NotaryStored(configuration), ssm |-> ssm,
                           outcome |-> Ok, value |-> citation]

\* notarizeComponent: citation || bali.pattern.NONE
\* variant of the $certificate attribute: always none
CertificateCitation_none(configuration) == NONE

CertificateCitation(configuration) ==
    IF configuration.citation # Undefined THEN configuration.citation ELSE NONE

\* DigitalNotary.notarizeComponent(component)
NotarizeComponent(notary, ssm, component, timestamp, ssmTag) ==
    LET loaded == NotaryLoad(notary)
    IN  IF ~EventAllowed(REQUESTS, STATES, loaded.controller, "$notarizeComponent")
        THEN NotaryFailure(loaded, ssm, <<"invalidEvent">>)
        ELSE LET document == UnsignedDocument(component, timestamp,
                                              CertificateCitation(loaded.config))
                 signed == SsmSignBytes(ssm, ssmTag, Bytes(document))
             IN  IF ~Succeeded(signed)
                 THEN NotaryFailure(loaded, signed.ssm, signed.outcome)
                 ELSE LET configuration ==
                            [loaded.config EXCEPT
                                !.state = NextState(REQUESTS, STATES, loaded.controller, "$notarizeComponent")]
                      IN  [notary |-> NotaryStored(configuration), ssm |-> signed.ssm,
                           outcome |-> Ok,
                           value |-> SetValue(document, "$signature", signed.value)]

\* DigitalNotary.refreshKey()
RefreshKey(notary, ssm, timestamp, ssmTag, pair) ==
    LET loaded == NotaryLoad(notary)
    IN  IF ~EventAllowed(REQUESTS, STATES, loaded.controller, "$refreshKey")
        THEN NotaryFailure(loaded, ssm, <<"invalidEvent">>)
        ELSE LET rotated == SsmRotateKeys(ssm, ssmTag, pair)
             IN  IF ~Succeeded(rotated)
                 THEN NotaryFailure(loaded, rotated.ssm, rotated.outcome)
                 ELSE LET citation == loaded.config.citation
                          tag == GetValue(citation, "$tag")
                          version == NextVersion(GetValue(citation, "$version"))
                          component == CertificateComponent(timestamp, rotated.value, tag,
                                                            version, citation)
                          unsigned == UnsignedDocument(component, timestamp, citation)
                          signed == SsmSignBytes(rotated.ssm, ssmTag, Bytes(unsigned))
                      IN  IF ~Succeeded(signed)
                          THEN NotaryFailure(loaded, signed.ssm, signed.outcome)
                          ELSE LET certificate == SetValue(unsigned, "$signature", signed.value)
                                   digest == SsmDigestBytes(CitedBytes(certificate))
                                   configuration ==
                                     [loaded.config EXCEPT
                                        !.certificate = certificate,
                                        !.citation = Citation(timestamp, tag, version, digest),
                                        !.state = NextState(REQUESTS, STATES, loaded.controller, "$refreshKey")]
                               IN  [notary |-> NotaryStored(configuration),
                                    ssm |-> signed.ssm, outcome |-> Ok,
                                    value |-> certificate]

\* variant of forgetKey: var configuration keeps its value
ForgetKey_keepsConfiguration(notary, ssm) ==
    LET erased == SsmEraseKeys(ssm)
    IN  [notary |-> [file |-> NoNotaryConfig, config |-> notary.config,
                     controller |-> notary.controller],
         ssm |-> erased.ssm, outcome |-> Ok, value |-> Undefined]

\* variant of forgetKey: the keys of the SSM are not erased
ForgetKey_keepsKeys(notary, ssm) ==
    [notary |-> [file |-> NoNotaryConfig, config |-> NoNotaryConfig,
                 controller |-> notary.controller],
     ssm |-> ssm, outcome |-> Ok, value |-> Undefined]

\* DigitalNotary.forgetKey(): the keys are erased, the file is deleted and
\* var configuration is undefined
ForgetKey(notary, ssm) ==
    LET erased == SsmEraseKeys(ssm)
    IN  [notary |-> [file |-> NoNotaryConfig, config |-> NoNotaryConfig,
                     controller |-> notary.controller],
         ssm |-> erased.ssm, outcome |-> Ok, value |-> Undefined]

\* variant of PROTOCOLS: with an entry for a further protocol
PROTOCOLS_withForeign == {"v1", "v99"}

\* the protocols of PROTOCOLS
PROTOCOLS == {"v1"}

\* the $expected and $actual attributes of an exception that has none
NoProtocols == {}
NoProtocol == "none"

\* variant of the extracted attributes: $signature is kept
SealedAttributes_withSignature ==
    <<"$component", "$protocol", "$timestamp", "$certificate", "$signature">>

\* the attributes validDocument extracts from the document
SealedAttributes == <<"$component", "$protocol", "$timestamp", "$certificate">>

\* DigitalNotary.validDocument(document, certificate): getValue gives
\* undefined for an attribute the catalog does not have, and the call on
\* undefined that follows throws a TypeError, wrapped once by the security
\* module when it happens there and once by the notary
ValidDocument(document, certificate) ==
    LET catalog == Extraction(document, SealedAttributes)
    IN  IF ~HasKey(certificate, "$protocol")
        THEN [outcome |-> <<"unexpected", "TypeError">>, flag |-> FALSE,
              expected |-> NoProtocols, actual |-> NoProtocol]
        ELSE IF GetValue(certificate, "$protocol") # PROTOCOL
                /\ GetValue(certificate, "$protocol") \notin PROTOCOLS
        THEN [outcome |-> <<"unexpected", "unsupportedProtocol">>, flag |-> FALSE,
              expected |-> PROTOCOLS, actual |-> GetValue(certificate, "$protocol")]
        ELSE IF ~HasKey(document, "$signature") \/ ~HasKey(certificate, "$publicKey")
        THEN [outcome |-> <<"unexpected", "unexpected", "TypeError">>, flag |-> FALSE,
              expected |-> NoProtocols, actual |-> NoProtocol]
        ELSE [outcome |-> Ok,
              flag |-> SsmValidSignature(GetValue(certificate, "$publicKey"),
                                         GetValue(document, "$signature"),
                                         Bytes(catalog)),
              expected |-> NoProtocols, actual |-> NoProtocol]

\* a call of validDocument that returned this value
Returns(validation, value) == validation.outcome = Ok /\ validation.flag = value

\* variant of citeDocument: the digest is taken of the component alone
CiteDocument_component(document, timestamp) ==
    IF ~HasKey(document, "$component")
    THEN [outcome |-> <<"unexpected", "TypeError">>, value |-> Undefined]
    ELSE LET component == GetValue(document, "$component")
             digest == SsmDigestBytes(Bytes(component))
         IN  [outcome |-> Ok,
              value |-> Citation(timestamp, GetParameter(component, "tag"),
                                 GetParameter(component, "version"), digest)]

\* DigitalNotary.citeDocument(document): a document without a $component
\* makes getParameter a call on undefined
CiteDocument(document, timestamp) ==
    IF ~HasKey(document, "$component")
    THEN [outcome |-> <<"unexpected", "TypeError">>, value |-> Undefined]
    ELSE LET component == GetValue(document, "$component")
             digest == SsmDigestBytes(Bytes(document))
         IN  [outcome |-> Ok,
              value |-> Citation(timestamp, GetParameter(component, "tag"),
                                 GetParameter(component, "version"), digest)]

\* DigitalNotary.citationMatches(citation, document): what is thrown, or the
\* boolean returned, with the $expected and $actual attributes of the cause
CitationMatches(citation, document) ==
    IF ~HasKey(citation, "$protocol")
    THEN [outcome |-> <<"unexpected", "TypeError">>, flag |-> FALSE,
          expected |-> NoProtocols, actual |-> NoProtocol]
    ELSE IF GetValue(citation, "$protocol") # PROTOCOL
            /\ GetValue(citation, "$protocol") \notin PROTOCOLS
    THEN [outcome |-> <<"unexpected", "unsupportedProtocol">>, flag |-> FALSE,
          expected |-> PROTOCOLS, actual |-> GetValue(citation, "$protocol")]
    ELSE [outcome |-> Ok,
          flag |-> HasKey(citation, "$digest")
                   /\ SsmDigestBytes(Bytes(document)) = GetValue(citation, "$digest"),
          expected |-> NoProtocols, actual |-> NoProtocol]

(***************************************************************************)
(* Calls in flight                                                         *)
(*                                                                         *)
(* Every method is an async function: it runs from the call to its first   *)
(* await and from each await to the next in one piece, and other calls run *)
(* while it waits.  A call of the SSM is [op, pc, ...]: pc names the await *)
(* it waits at, and the other fields are its local variables and what it   *)
(* returns or throws.  A step gives back the call and the SSM it leaves    *)
(* and how many tags and key pairs it drew.                                *)
(***************************************************************************)
NoSsmCall ==
    [op |-> "none", pc |-> "idle", bytes |-> Bytes(Undefined), held |-> NoSsmConfig,
     publicKey |-> 0, privateKey |-> 0, outcome |-> Ok, key |-> NoKey,
     signature |-> NoSignature]

SsmStepped(call, ssm, tags, keys) == [call |-> call, ssm |-> ssm, tags |-> tags, keys |-> keys]

\* return: the promise of the method is resolved
SsmReturned(call, ssm) == SsmStepped([call EXCEPT !.pc = "done"], ssm, 0, 0)

\* the catch block of the method: its promise is rejected
SsmThrown(call, ssm, cause) ==
    SsmStepped([call EXCEPT !.pc = "done", !.outcome = Wrap("unexpected", cause)], ssm, 0, 0)

\* what a method does to var configuration when it is undefined
TypeError == <<"TypeError">>

\* the method from "check the current state", with the configuration loaded,
\* to its next await
SsmBody(call, ssm) ==
    IF call.op = "getTag"
    THEN SsmReturned([call EXCEPT !.key = ssm.config.tag], ssm)
    ELSE IF ~EventAllowed(SSM_REQUESTS, SSM_STATES, ssm.controller, "$" \o call.op)
    THEN SsmThrown(call, ssm, <<"invalidEvent">>)
    ELSE IF call.op = "generateKeys"
    THEN SsmStepped([call EXCEPT !.pc = "createKeyPair"], ssm, 0, 0)
    ELSE IF call.op = "rotateKeys"
    THEN SsmStepped([call EXCEPT !.pc = "createKeyPair"],
                    [ssm EXCEPT !.config.previousPublicKey = ssm.config.publicKey,
                                !.config.previousPrivateKey = ssm.config.privateKey],
                    0, 0)
    ELSE LET keys == SigningKeys(ssm.config)
         IN  SsmStepped([call EXCEPT !.pc = "sign", !.publicKey = keys.publicKey,
                                     !.privateKey = keys.privateKey],
                        [ssm EXCEPT !.config = keys.remaining], 0, 0)

\* the call itself: the method up to its first await
SsmBegin(op, bytes, ssm) ==
    LET call == [NoSsmCall EXCEPT !.op = op, !.bytes = bytes]
    IN  IF op = "eraseKeys" THEN SsmStepped([call EXCEPT !.pc = "delete"], ssm, 0, 0)
        ELSE IF ssm.config = NoSsmConfig
        THEN SsmStepped([call EXCEPT !.pc = "load"], ssm, 0, 0)
        ELSE SsmBody(call, ssm)

\* "update the configuration": the transition, the new $state, and
\* storeConfiguration up to its await, which has the document to write
SsmUpdate(call, ssm) ==
    IF ~EventAllowed(SSM_REQUESTS, SSM_STATES, ssm.controller, "$" \o call.op)
    THEN SsmThrown(call, ssm, <<"invalidEvent">>)
    ELSE LET state == NextState(SSM_REQUESTS, SSM_STATES, ssm.controller, "$" \o call.op)
             configuration == [ssm.config EXCEPT !.state = state]
         IN  SsmStepped([call EXCEPT !.pc = "store", !.held = configuration],
                        [ssm EXCEPT !.config = configuration, !.controller = state], 0, 0)

\* the awaited promise is resolved: the method goes on to its next await
SsmResume(call, ssm, tag, pair) ==
    CASE call.pc = "load" ->
            \* configurator.load() inside loadConfiguration
            IF ssm.file # NoSsmConfig
            THEN SsmBody(call, [ssm EXCEPT !.config = ssm.file, !.controller = ssm.file.state])
            ELSE SsmStepped([call EXCEPT
                                !.pc = "storeDefault",
                                !.held = [NoSsmConfig EXCEPT !.tag = tag, !.state = "keyless"]],
                            ssm, 1, 0)
      [] call.pc = "storeDefault" ->
            \* configurator.store() inside loadConfiguration
            SsmBody(call, [file |-> call.held, config |-> call.held,
                           controller |-> call.held.state])
      [] call.pc = "createKeyPair" ->
            IF ssm.config = NoSsmConfig THEN SsmThrown(call, ssm, TypeError)
            ELSE LET next == SsmUpdate(call,
                                [ssm EXCEPT !.config.publicKey = PublicKey(pair),
                                            !.config.privateKey = PrivateKey(pair)])
                 IN  [next EXCEPT !.keys = 1]
      [] call.pc = "sign" ->
            IF ssm.config = NoSsmConfig THEN SsmThrown(call, ssm, TypeError)
            ELSE SsmUpdate([call EXCEPT
                                !.signature = Sign(call.bytes, call.publicKey, call.privateKey)],
                           ssm)
      [] call.pc = "store" ->
            LET stored == [ssm EXCEPT !.file = call.held]
            IN  IF call.op = "signBytes" THEN SsmReturned(call, stored)
                ELSE IF ssm.config = NoSsmConfig THEN SsmThrown(call, stored, TypeError)
                ELSE SsmReturned([call EXCEPT !.key = ssm.config.publicKey], stored)
      [] call.pc = "delete" ->
            SsmReturned(call, [ssm EXCEPT !.file = NoSsmConfig, !.config = NoSsmConfig])

\* the awaited promise is rejected: the configurator or the signer fails
SsmReject(call, ssm) ==
    IF call.pc \in {"createKeyPair", "sign"}
    THEN SsmThrown(call, ssm, <<"signer">>)
    ELSE SsmThrown(call, ssm, <<"storageException", "configurator">>)

\* a call of the notary, or of the SSM by its owner: the method called,
\* the await it waits at, the call of the SSM it waits for, the
\* configuration its load or store carries, the catalog it was given and
\* the one it makes, and what it throws
NoCall ==
    [op |-> "none", pc |-> "idle", sub |-> NoSsmCall, held |-> NoNotaryConfig,
     given |-> Undefined, made |-> Undefined, outcome |-> Ok, nth |-> 0, faults |-> 0]

Stepped(call, notary, ssm, tags, keys) ==
    [call |-> call, notary |-> notary, ssm |-> ssm, tags |-> tags, keys |-> keys]

\* return: the promise of the method is resolved
CallReturned(call, notary, ssm) == Stepped([call EXCEPT !.pc = "done"], notary, ssm, 0, 0)

\* the catch block of the method: its promise is rejected
CallThrown(call, notary, ssm, cause) ==
    Stepped([call EXCEPT !.pc = "done", !.outcome = Wrap("unexpected", cause)],
            notary, ssm, 0, 0)

\* await securityModule.<op>(bytes): the method of the SSM runs to its first
\* await, and the caller waits for its promise
AwaitSsm(call, notary, ssm, op, bytes) ==
    LET s == SsmBegin(op, bytes, ssm)
    IN  Stepped([call EXCEPT !.pc = op, !.sub = s.call], notary, s.ssm, 0, 0)

\* "update current state": the transition, the new $state, and
\* storeConfiguration up to its await, which has the document to write
CallUpdate(call, notary, ssm) ==
    IF ~EventAllowed(REQUESTS, STATES, notary.controller, "$" \o call.op)
    THEN CallThrown(call, notary, ssm, <<"invalidEvent">>)
    ELSE LET state == NextState(REQUESTS, STATES, notary.controller, "$" \o call.op)
             configuration == [notary.config EXCEPT !.state = state]
         IN  Stepped([call EXCEPT !.pc = "store", !.held = configuration],
                     [notary EXCEPT !.config = configuration, !.controller = state],
                     ssm, 0, 0)

\* the method from "check current state", with the configuration loaded, to
\* its next await
CallBody(call, notary, ssm, timestamp) ==
    IF call.op = "getCitation" THEN CallUpdate(call, notary, ssm)
    ELSE IF ~EventAllowed(REQUESTS, STATES, notary.controller, "$" \o call.op)
    THEN CallThrown(call, notary, ssm, <<"invalidEvent">>)
    ELSE IF call.op = "generateKey"
    THEN AwaitSsm(call, notary, ssm, "generateKeys", Bytes(Undefined))
    ELSE IF call.op = "refreshKey"
    THEN AwaitSsm(call, notary, ssm, "rotateKeys", Bytes(Undefined))
    ELSE IF call.op = "notarizeComponent"
    THEN LET document == UnsignedDocument(call.given, timestamp,
                                          CertificateCitation(notary.config))
         IN  AwaitSsm([call EXCEPT !.made = document], notary, ssm, "signBytes",
                      Bytes(document))
    ELSE \* activateKey
         LET component == IF HasKey(call.given, "$component")
                          THEN GetValue(call.given, "$component")
                          ELSE Undefined
         IN  IF notary.config.certificate = Undefined
             THEN CallThrown(call, notary, ssm, TypeError)
             ELSE IF ~IsEqualTo(notary.config.certificate, component)
             THEN CallThrown(call, notary, ssm, <<"invalidCertificate">>)
             ELSE Stepped([call EXCEPT
                             !.pc = "digestBytes",
                             !.made = Citation(timestamp, GetParameter(component, "tag"),
                                               GetParameter(component, "version"),
                                               SsmDigestBytes(CitedBytes(call.given)))],
                          notary, ssm, 0, 0)

\* the call itself: the method up to its first await
CallBegin(op, given, notary, ssm, timestamp) ==
    LET call == [NoCall EXCEPT !.op = op, !.given = given]
    IN  IF op = "forgetKey" THEN AwaitSsm(call, notary, ssm, "eraseKeys", Bytes(Undefined))
        ELSE IF notary.config = NoNotaryConfig
        THEN Stepped([call EXCEPT !.pc = "load"], notary, ssm, 0, 0)
        ELSE CallBody(call, notary, ssm, timestamp)

\* the call of the SSM has returned or thrown: the method goes on
AfterSsm(call, notary, ssm, timestamp, tag) ==
    IF call.sub.outcome # Ok THEN CallThrown(call, notary, ssm, call.sub.outcome)
    ELSE IF call.op = "forgetKey"
    THEN Stepped([call EXCEPT !.pc = "delete"], notary, ssm, 0, 0)
    ELSE IF notary.config = NoNotaryConfig THEN CallThrown(call, notary, ssm, TypeError)
    ELSE IF call.op = "generateKey"
    THEN LET certificate == CertificateComponent(timestamp, call.sub.key, tag,
                                                 InitialVersion, NONE)
             next == CallUpdate([call EXCEPT !.made = certificate],
                                [notary EXCEPT !.config.certificate = certificate], ssm)
         IN  [next EXCEPT !.tags = 1]
    ELSE IF call.op = "notarizeComponent"
    THEN CallUpdate([call EXCEPT !.made = SetValue(call.made, "$signature", call.sub.signature)],
                    notary, ssm)
    ELSE IF call.pc = "rotateKeys"
    THEN LET citation == notary.config.citation
         IN  IF citation = Undefined THEN CallThrown(call, notary, ssm, TypeError)
             ELSE LET version == NextVersion(GetValue(citation, "$version"))
                      component == CertificateComponent(timestamp, call.sub.key,
                                                        GetValue(citation, "$tag"),
                                                        version, citation)
                      unsigned == UnsignedDocument(component, timestamp, citation)
                  IN  AwaitSsm([call EXCEPT !.made = unsigned], notary, ssm, "signBytes",
                               Bytes(unsigned))
    ELSE \* refreshKey, after signBytes
         LET certificate == SetValue(call.made, "$signature", call.sub.signature)
         IN  Stepped([call EXCEPT !.pc = "digestBytes", !.made = certificate],
                     [notary EXCEPT !.config.certificate = certificate], ssm, 0, 0)

\* securityModule.digestBytes(bytes) has returned: the citation is saved
AfterDigest(call, notary, ssm) ==
    IF notary.config = NoNotaryConfig THEN CallThrown(call, notary, ssm, TypeError)
    ELSE IF call.op = "activateKey"
    THEN CallUpdate(call, [notary EXCEPT !.config.citation = call.made,
                                         !.config.certificate = call.given], ssm)
    ELSE LET component == GetValue(call.made, "$component")
             citation == Citation(GetValue(call.made, "$timestamp"),
                                  GetParameter(component, "tag"),
                                  GetParameter(component, "version"),
                                  SsmDigestBytes(CitedBytes(call.made)))
         IN  CallUpdate(call, [notary EXCEPT !.config.citation = citation], ssm)

\* variant of the load of a missing file: the default configuration is
\* kept in memory and not stored
CallResume_defaultInMemory(call, notary, ssm, timestamp, tag, ssmTag, pair) ==
    IF call.sub.pc \notin {"idle", "done"}
    THEN LET s == SsmResume(call.sub, ssm, ssmTag, pair)
         IN  Stepped([call EXCEPT !.sub = s.call], notary, s.ssm, s.tags, s.keys)
    ELSE CASE call.pc = "load" ->
                IF notary.file # NoNotaryConfig
                THEN CallBody(call, [notary EXCEPT !.config = notary.file,
                                                   !.controller = notary.file.state],
                              ssm, timestamp)
                ELSE Stepped([call EXCEPT
                                !.pc = "storeDefault",
                                !.held = [NoNotaryConfig EXCEPT !.state = "limited"]],
                             notary, ssm, 0, 0)
           [] call.pc = "storeDefault" ->
                CallBody(call, [file |-> notary.file, config |-> call.held,
                                controller |-> call.held.state],
                         ssm, timestamp)
           [] call.pc \in {"generateKeys", "rotateKeys", "signBytes", "eraseKeys"} ->
                AfterSsm(call, notary, ssm, timestamp, tag)
           [] call.pc = "digestBytes" -> AfterDigest(call, notary, ssm)
           [] call.pc = "store" ->
                LET stored == [notary EXCEPT !.file = call.held]
                IN  IF call.op # "getCitation" THEN CallReturned(call, stored, ssm)
                    ELSE IF notary.config = NoNotaryConfig
                    THEN CallThrown(call, stored, ssm, TypeError)
                    ELSE CallReturned([call EXCEPT !.made = notary.config.citation],
                                      stored, ssm)
           [] call.pc = "delete" ->
                CallReturned(call, [notary EXCEPT !.file = NoNotaryConfig,
                                                  !.config = NoNotaryConfig], ssm)

\* the awaited promise is resolved: the method goes on to its next await
CallResume(call, notary, ssm, timestamp, tag, ssmTag, pair) ==
    IF call.sub.pc \notin {"idle", "done"}
    THEN LET s == SsmResume(call.sub, ssm, ssmTag, pair)
         IN  Stepped([call EXCEPT !.sub = s.call], notary, s.ssm, s.tags, s.keys)
    ELSE CASE call.pc = "load" ->
                IF notary.file # NoNotaryConfig
                THEN CallBody(call, [notary EXCEPT !.config = notary.file,
                                                   !.controller = notary.file.state],
                              ssm, timestamp)
                ELSE Stepped([call EXCEPT
                                !.pc = "storeDefault",
                                !.held = [NoNotaryConfig EXCEPT !.state = "limited"]],
                             notary, ssm, 0, 0)
           [] call.pc = "storeDefault" ->
                CallBody(call, [file |-> call.held, config |-> call.held,
                                controller |-> call.held.state],
                         ssm, timestamp)
           [] call.pc \in {"generateKeys", "rotateKeys", "signBytes", "eraseKeys"} ->
                AfterSsm(call, notary, ssm, timestamp, tag)
           [] call.pc = "digestBytes" -> AfterDigest(call, notary, ssm)
           [] call.pc = "store" ->
                LET stored == [notary EXCEPT !.file = call.held]
                IN  IF call.op # "getCitation" THEN CallReturned(call, stored, ssm)
                    ELSE IF notary.config = NoNotaryConfig
                    THEN CallThrown(call, stored, ssm, TypeError)
                    ELSE CallReturned([call EXCEPT !.made = notary.config.citation],
                                      stored, ssm)
           [] call.pc = "delete" ->
                CallReturned(call, [notary EXCEPT !.file = NoNotaryConfig,
                                                  !.config = NoNotaryConfig], ssm)

\* the awaited promise is rejected: the configurator, the signer or the
\* hash fails
CallReject(call, notary, ssm) ==
    IF call.sub.pc \notin {"idle", "done"}
    THEN LET s == SsmReject(call.sub, ssm)
         IN  Stepped([call EXCEPT !.sub = s.call], notary, s.ssm, 0, 0)
    ELSE IF call.pc = "digestBytes"
    THEN CallThrown(call, notary, ssm, <<"unexpected", "hasher">>)
    ELSE CallThrown(call, notary, ssm, <<"storageException", "configurator">>)

\* the caller issues a call, and may issue a second before the first returns
Callers == {1, 2}

(***************************************************************************)
(* The caller                                                              *)
(***************************************************************************)
\* the tag of the caller's components
UserTag == 0

\* a component of the caller, with the parameters notarizeComponent asks for
UserComponent(content) ==
    Catalog(<<"$content">>, <<content>>,
            [type |-> "/bali/examples/Content/v1", tag |-> UserTag,
             version |-> InitialVersion, permissions |-> PublicPermissions,
             previous |-> NONE])

\* a certificate signed elsewhere on the owner's behalf: the component in a
\* document with a signature the local key did not make
ExternallySigned(component) ==
    SetValue(UnsignedDocument(component, 0, NONE), "$signature",
             Sign(Bytes(UnsignedDocument(component, 0, NONE)), 0, 0))

(***************************************************************************)
(* The v1 notary key and notary certificate (src/DigitalNotary.js)         *)
(*                                                                         *)
(* A document is its source (version, tag, key, content) and the seals     *)
(* appended to it; a citation is its reference and, once the document it   *)
(* cites is known, the hash of that document; the text that is signed is   *)
(* the text of the document followed by the text of the citation.          *)
(***************************************************************************)
\* crypto.createHash('sha512'), taken as collision free
digest(message) == [sha512 |-> message]

\* a new secp521r1 key pair
generate(seed) == [privateKey |-> PrivateKey(seed), publicKey |-> PublicKey(seed)]

\* ecdsa-with-SHA1: the signature of the message under the private key
sign(privateKey, message) == [signed |-> message, by |-> privateKey]

\* the signature is one the private key of publicKey made of the message
verify(publicKey, message, signature) ==
    /\ signature.signed = message
    /\ signature.by = PrivateKey(publicKey)

\* the template of a certificate, with its tag and public key filled in
V1_CERTIFICATE(tag, key) == [version |-> "v1", tag |-> tag, key |-> key, content |-> 0]

\* language.parseDocument(source): a document with no seal yet
parseDocument(source) ==
    [version |-> source.version, tag |-> source.tag, key |-> source.key,
     content |-> source.content, seals |-> <<>>]

\* language.addSeal(document, citation, signature)
addSeal(document, citation, signature) ==
    [document EXCEPT !.seals = Append(@, [citation |-> citation, signature |-> signature])]

\* language.removeSeal(document): the document without its last seal, and
\* that seal
removeSeal(document) ==
    [document |-> [document EXCEPT !.seals = SubSeq(@, 1, Len(@) - 1)],
     seal |-> document.seals[Len(document.seals)]]

\* 'bali:/' + tag: the citation of a certificate that has no hash yet
TemporaryCitation(tag) == [reference |-> tag, hash |-> <<>>]

\* new DocumentCitation(reference, document, version)
DocumentCitation(reference, document) ==
    [reference |-> reference.reference, hash |-> <<digest(document)>>]

\* new NotaryCertificate(document)
NotaryCertificate(document) ==
    [tag |-> document.tag, key |-> document.key, seals |-> document.seals]

RECURSIVE AddSeals(_, _)
AddSeals(document, seals) ==
    IF seals = <<>> THEN document
    ELSE AddSeals(addSeal(document, Head(seals).citation, Head(seals).signature), Tail(seals))

\* NotaryCertificate.prototype.toString, parsed again: the certificate
\* document
CertificateDocument(certificate) ==
    AddSeals(parseDocument(V1_CERTIFICATE(certificate.tag, certificate.key)), certificate.seals)

\* NotaryKey.prototype.notarizeDocument: the document with one more seal,
\* made with this.key over the document followed by this.citation
notarizeDocument(this, document) ==
    LET citation == this.citation
        source == [document |-> document, citation |-> citation]
        signature == sign(this.key, source)
    IN  addSeal(document, citation, signature)

\* new NotaryKey(): the object the constructor leaves
NotaryKey(tag, seed) ==
    LET keypair == generate(seed)
        temporary == [tag |-> tag, key |-> keypair.privateKey,
                      citation |-> TemporaryCitation(tag)]
        document == notarizeDocument(temporary,
                        parseDocument(V1_CERTIFICATE(tag, keypair.publicKey)))
    IN  [tag |-> tag, key |-> keypair.privateKey,
         citation |-> DocumentCitation(temporary.citation, document),
         certificate |-> NotaryCertificate(document)]

\* variant of regenerateKey: the key is replaced before the first seal
regenerateKey_newKeyFirst(this, tag, seed) ==
    LET keypair == generate(seed)
        new == [tag |-> tag, key |-> keypair.privateKey,
                citation |-> TemporaryCitation(tag)]
        once == notarizeDocument(new, parseDocument(V1_CERTIFICATE(tag, keypair.publicKey)))
        document == notarizeDocument(new, once)
    IN  [tag |-> tag, key |-> keypair.privateKey,
         citation |-> DocumentCitation(new.citation, document),
         certificate |-> NotaryCertificate(document)]

\* NotaryKey.prototype.regenerateKey: the object it leaves; the certificate
\* it returns is the object's certificate
regenerateKey(this, tag, seed) ==
    LET keypair == generate(seed)
        citation == TemporaryCitation(tag)
        once == notarizeDocument(this, parseDocument(V1_CERTIFICATE(tag, keypair.publicKey)))
        new == [tag |-> tag, key |-> keypair.privateKey, citation |-> citation]
        document == notarizeDocument(new, once)
    IN  [tag |-> tag, key |-> keypair.privateKey,
         citation |-> DocumentCitation(new.citation, document),
         certificate |-> NotaryCertificate(document)]

\* NotaryCertificate.prototype.documentIsValid
documentIsValid(certificate, document) ==
    LET removed == removeSeal(document)
        source == [document |-> removed.document, citation |-> removed.seal.citation]
    IN  verify(certificate.key, source, removed.seal.signature)

\* the notary key, the document its caller holds, the certificates the key
\* has had, the method last called, and the certificate and the document
\* documentIsValid was given and what it returned
NoLegacy ==
    [notaryKey |-> [tag |-> 0, key |-> 0, citation |-> TemporaryCitation(0),
                    certificate |-> [tag |-> 0, key |-> 0, seals |-> <<>>]],
     document |-> parseDocument([version |-> "v1", tag |-> 0, key |-> 0, content |-> 0]),
     chain |-> <<>>,
     op |-> "none",
     certificate |-> [tag |-> 0, key |-> 0, seals |-> <<>>],
     given |-> parseDocument([version |-> "v1", tag |-> 0, key |-> 0, content |-> 0]),
     isValid |-> FALSE]

Notary == [file |-> notaryFile, config |-> notaryConfig, controller |-> notaryController]
Ssm == [file |-> ssmFile, config |-> ssmConfig, controller |-> ssmController]

\* bali.moment(): the clock may have advanced since it was last read
Moments == {t \in {now, now + 1} : t <= MaxTime}

NoBytes == Bytes(Undefined)
\* the operation called, its outcome, and what it was given and gave back:
\* the catalog a notary method returns, the bytes an SSM method is given,
\* the key, tag, signature or digest an SSM method returns, the document,
\* certificate and citation a notary method is given, the boolean it
\* returns, and the $expected and $actual attributes of the exception
NoResult ==
    [op |-> "none", outcome |-> Ok, value |-> Undefined, bytes |-> NoBytes,
     key |-> NoKey, signature |-> NoSignature, digest |-> Hash(NoBytes),
     document |-> Undefined, certificate |-> Undefined, citation |-> Undefined,
     flag |-> FALSE, expected |-> NoProtocols, actual |-> NoProtocol]

\* the caller of the SSM keeps the public key it was last given, the one it
\* held before when the last came from rotateKeys, and whether it has had
\* no signature since
NoKeys == [key |-> NoKey, before |-> NoKey, fresh |-> FALSE]

Init ==
    /\ calls = [c \in Callers |-> NoCall]
    /\ heldKey = NoKeys
    /\ now = 0
    /\ nextKey = 1
    /\ nextTag = 1
    /\ ssmFile = NoSsmConfig
    /\ ssmConfig = NoSsmConfig
    /\ ssmController = "undefined"
    /\ notaryFile = NoNotaryConfig
    /\ notaryConfig = NoNotaryConfig
    /\ notaryController = "undefined"
    /\ heldDoc = Undefined
    /\ heldCert = Undefined
    /\ result = NoResult
    /\ legacy = NoLegacy

\* the random tags are all different: the SSM takes the next one when it
\* has to make its configuration
SsmTag == nextTag
SsmDraws == IF ssmConfig = NoSsmConfig /\ ssmFile = NoSsmConfig THEN 1 ELSE 0

\* what a notary operation leaves behind
DoneWith(op, r, given) ==
    /\ notaryFile' = r.notary.file
    /\ notaryConfig' = r.notary.config
    /\ notaryController' = r.notary.controller
    /\ ssmFile' = r.ssm.file
    /\ ssmConfig' = r.ssm.config
    /\ ssmController' = r.ssm.controller
    /\ result' = [given EXCEPT !.op = op, !.outcome = r.outcome, !.value = r.value]
    /\ UNCHANGED <<heldKey, calls, legacy>>

Done(op, r) == DoneWith(op, r, NoResult)

\* the tags taken by an operation that left this SSM behind and took
\* `others` tags of its own
TagsTaken(r, others) ==
    (IF r.ssm.file # ssmFile /\ ssmFile = NoSsmConfig /\ ssmConfig = NoSsmConfig
     THEN 1 ELSE 0) + (IF Succeeded(r) THEN others ELSE 0)

GetCitationOp ==
    /\ Done("getCitation", GetCitation(Notary, Ssm))
    /\ UNCHANGED <<now, nextKey, nextTag, heldDoc, heldCert>>

GenerateKeyOp ==
    \E t \in Moments :
        LET r == GenerateKey(Notary, Ssm, t, SsmTag, nextTag + SsmDraws, nextKey)
        IN  /\ (nextKey <= MaxKeys /\ nextTag + SsmDraws <= MaxTags) \/ ~Succeeded(r)
            /\ Done("generateKey", r)
            /\ now' = t
            /\ nextKey' = IF Succeeded(r) THEN nextKey + 1 ELSE nextKey
            /\ nextTag' = nextTag + TagsTaken(r, 1)
            /\ heldCert' = IF Succeeded(r) THEN r.value ELSE heldCert
            /\ UNCHANGED heldDoc

\* the caller activates with the document it holds, or with the certificate
\* it holds as signed elsewhere
ActivateKeyOp ==
    \E t \in Moments, external \in BOOLEAN :
        LET certificate ==
                IF ~external THEN heldDoc
                ELSE IF heldCert # Undefined THEN ExternallySigned(heldCert)
                ELSE ExternallySigned(UserComponent(1))
            r == ActivateKey(Notary, Ssm, certificate, t)
        IN  /\ certificate # Undefined
            /\ DoneWith("activateKey", r, [NoResult EXCEPT !.certificate = certificate])
            /\ now' = t
            /\ UNCHANGED <<nextKey, nextTag, heldDoc, heldCert>>

\* the caller notarizes one of its components, or the certificate component
\* it holds: a component parameterized with $tag, $version, $permissions and
\* $previous, as the method asks
NotarizeComponentOp ==
    \E t \in Moments, content \in 0..MaxContent :
        LET component == IF content = 0 THEN heldCert ELSE UserComponent(content)
            r == NotarizeComponent(Notary, Ssm, component, t, SsmTag)
        IN  /\ component # Undefined
            /\ HasParameter(component, "tag")
            /\ nextTag <= MaxTags
            /\ Done("notarizeComponent", r)
            /\ now' = t
            /\ nextTag' = nextTag + TagsTaken(r, 0)
            /\ heldDoc' = IF Succeeded(r) THEN r.value ELSE heldDoc
            /\ UNCHANGED <<nextKey, heldCert>>

RefreshKeyOp ==
    \E t \in Moments :
        LET r == RefreshKey(Notary, Ssm, t, SsmTag, nextKey)
        IN  /\ nextKey <= MaxKeys \/ ~Succeeded(r)
            /\ nextTag <= MaxTags
            /\ Done("refreshKey", r)
            /\ now' = t
            /\ nextKey' = IF Succeeded(r) THEN nextKey + 1 ELSE nextKey
            /\ nextTag' = nextTag + TagsTaken(r, 0)
            /\ heldCert' = IF Succeeded(r) THEN r.value ELSE heldCert
            /\ UNCHANGED heldDoc

\* the caller lets go of what the forgotten key made
ForgetKeyOp ==
    /\ Done("forgetKey", ForgetKey(Notary, Ssm))
    /\ heldDoc' = Undefined
    /\ heldCert' = Undefined
    /\ UNCHANGED <<now, nextKey, nextTag>>

Next ==
    \/ GetCitationOp
    \/ GenerateKeyOp
    \/ ActivateKeyOp
    \/ NotarizeComponentOp
    \/ RefreshKeyOp
    \/ ForgetKeyOp

Spec == Init /\ [][Next]_vars

(***************************************************************************)
(* The caller of the security module                                       *)
(***************************************************************************)
\* what an SSM operation leaves behind
SsmDone(op, r, returned) ==
    /\ ssmFile' = r.ssm.file
    /\ ssmConfig' = r.ssm.config
    /\ ssmController' = r.ssm.controller
    /\ nextTag' = nextTag + TagsTaken(r, 0)
    /\ result' = [returned EXCEPT !.op = op, !.outcome = r.outcome]
    /\ UNCHANGED <<now, notaryVars, heldDoc, heldCert, calls, legacy>>

SsmGenerateKeysOp ==
    LET r == SsmGenerateKeys(Ssm, SsmTag, nextKey)
    IN  /\ nextKey <= MaxKeys \/ ~Succeeded(r)
        /\ nextTag <= MaxTags
        /\ SsmDone("generateKeys", r, [NoResult EXCEPT !.key = r.value])
        /\ nextKey' = IF Succeeded(r) THEN nextKey + 1 ELSE nextKey
        /\ heldKey' = IF Succeeded(r)
                      THEN [key |-> r.value, before |-> NoKey, fresh |-> TRUE]
                      ELSE heldKey

SsmRotateKeysOp ==
    LET r == SsmRotateKeys(Ssm, SsmTag, nextKey)
    IN  /\ nextKey <= MaxKeys \/ ~Succeeded(r)
        /\ nextTag <= MaxTags
        /\ SsmDone("rotateKeys", r, [NoResult EXCEPT !.key = r.value])
        /\ nextKey' = IF Succeeded(r) THEN nextKey + 1 ELSE nextKey
        /\ heldKey' = IF Succeeded(r)
                      THEN [key |-> r.value, before |-> heldKey.key, fresh |-> TRUE]
                      ELSE heldKey

\* the byte strings the caller has signed
SomeBytes == {Bytes(UserComponent(content)) : content \in 0..MaxContent}

SsmSignBytesOp ==
    \E bytes \in SomeBytes :
        LET r == SsmSignBytes(Ssm, SsmTag, bytes)
        IN  /\ nextTag <= MaxTags
            /\ SsmDone("signBytes", r, [NoResult EXCEPT !.bytes = bytes, !.signature = r.value])
            /\ heldKey' = IF Succeeded(r) THEN [heldKey EXCEPT !.fresh = FALSE] ELSE heldKey
            /\ UNCHANGED nextKey

SsmEraseKeysOp ==
    /\ SsmDone("eraseKeys", SsmEraseKeys(Ssm), NoResult)
    /\ UNCHANGED <<nextKey, heldKey>>

SsmGetTagOp ==
    LET r == SsmGetTag(Ssm, SsmTag)
    IN  /\ nextTag <= MaxTags
        /\ SsmDone("getTag", r, [NoResult EXCEPT !.key = r.value])
        /\ UNCHANGED <<nextKey, heldKey>>

\* variant of digestBytes: the configuration is loaded first, as in getTag
SsmDigestBytesOp_loads ==
    \E bytes \in SomeBytes :
        /\ nextTag <= MaxTags
        /\ SsmDone("digestBytes", SsmGetTag(Ssm, SsmTag),
                   [NoResult EXCEPT !.bytes = bytes, !.digest = SsmDigestBytes(bytes)])
        /\ UNCHANGED <<nextKey, heldKey>>

SsmDigestBytesOp ==
    \E bytes \in SomeBytes :
        /\ result' = [NoResult EXCEPT !.op = "digestBytes", !.bytes = bytes,
                                      !.digest = SsmDigestBytes(bytes)]
        /\ UNCHANGED <<now, nextKey, nextTag, ssmVars, notaryVars, heldDoc, heldCert, heldKey,
                       calls, legacy>>

\* the keys and signatures the caller asks validSignature about: the public
\* keys the module can have made, and their signatures of the caller's bytes
SomeSignatures ==
    {Sign(bytes, PublicKey(pair), PrivateKey(pair)) : bytes \in SomeBytes, pair \in 1..MaxKeys}

SsmValidSignatureOp ==
    \E pair \in 1..MaxKeys, signature \in SomeSignatures, bytes \in SomeBytes :
        /\ result' = [NoResult EXCEPT
                        !.op = "validSignature", !.key = PublicKey(pair),
                        !.signature = signature, !.bytes = bytes,
                        !.flag = SsmValidSignature(PublicKey(pair), signature, bytes)]
        /\ UNCHANGED <<now, nextKey, nextTag, ssmVars, notaryVars, heldDoc, heldCert, heldKey,
                       calls, legacy>>

SSMNext ==
    \/ SsmGetTagOp
    \/ SsmDigestBytesOp
    \/ SsmValidSignatureOp
    \/ SsmGenerateKeysOp
    \/ SsmRotateKeysOp
    \/ SsmSignBytesOp
    \/ SsmEraseKeysOp

SSMSpec == Init /\ [][SSMNext]_vars

(***************************************************************************)
(* The reader: whoever holds what the notary returned, or a changed copy   *)
(* of it, and asks the notary about it.  citeDocument, citationMatches and *)
(* validDocument read no state and write none, so the reader is taken to   *)
(* make its call, or citeDocument and then citationMatches, on the state   *)
(* the caller left, and the caller to go on from that state.               *)
(***************************************************************************)
\* a protocol the registry does not have
ForeignProtocol == "v99"

\* a copy of the catalog with another $protocol
WithProtocol(catalog, protocol) == SetValue(catalog, "$protocol", protocol)

\* the first key pair of this run and one the security module never made
SomePairs == {1, MaxKeys + 1}

\* a copy of the document with another $component and with the signature
\* the holder of the key pair makes of the changed document
Tampered(document, pair) ==
    LET changed == SetValue(document, "$component", UserComponent(0))
        sealed == Extraction(changed, <<"$component", "$protocol", "$timestamp", "$certificate">>)
    IN  SetValue(changed, "$signature",
                 Sign(Bytes(sealed), PublicKey(pair), PrivateKey(pair)))

\* the documents the reader asks about: one notarized elsewhere, the one
\* the caller was last given with its tampered copies, and the notary's
\* certificate when it is a notarized one
ReaderDocuments ==
    {ExternallySigned(UserComponent(1))}
        \cup (IF heldDoc = Undefined THEN {}
              ELSE {heldDoc} \cup {Tampered(heldDoc, pair) : pair \in SomePairs})
        \cup (IF heldCert = Undefined THEN {}
              ELSE {certificate \in {heldCert} : HasKey(certificate, "$component")})

\* the certificates the reader asks with: one of a key pair made
\* elsewhere, the notary's current certificate,
\* its component when it is a notarized one, and a copy of the component
\* that names a foreign protocol
ReaderCertificates ==
    {CertificateComponent(0, PublicKey(MaxKeys + 1), UserTag, InitialVersion, NONE)}
        \cup (IF notaryFile.certificate = Undefined THEN {}
              ELSE LET current == notaryFile.certificate
                       component == IF HasKey(current, "$component")
                                    THEN GetValue(current, "$component")
                                    ELSE current
                   IN  {current, component, WithProtocol(component, ForeignProtocol)})

readerOps == {"citeDocument", "citationMatches", "validDocument"}

\* what a reader's call leaves behind
Read(returned) ==
    /\ result' = returned
    /\ UNCHANGED <<nextKey, nextTag, ssmVars, notaryVars, heldDoc, heldCert, heldKey, calls, legacy>>

\* variant of citeDocument: the configuration is loaded first, as in the
\* methods that check the state
CiteDocumentOp_loads ==
    /\ result.op \notin readerOps
    /\ \E document \in ReaderDocuments, t \in Moments :
        LET r == CiteDocument(document, t)
            loaded == NotaryLoad(Notary)
        IN  /\ result' = [NoResult EXCEPT !.op = "citeDocument", !.outcome = r.outcome,
                                          !.value = r.value, !.document = document]
            /\ notaryFile' = loaded.file
            /\ notaryConfig' = loaded.config
            /\ notaryController' = loaded.controller
            /\ UNCHANGED <<nextKey, nextTag, ssmVars, heldDoc, heldCert, heldKey, calls, legacy>>
            /\ now' = t

CiteDocumentOp ==
    /\ result.op \notin readerOps
    /\ \E document \in ReaderDocuments, t \in Moments :
        LET r == CiteDocument(document, t)
        IN  /\ Read([NoResult EXCEPT !.op = "citeDocument", !.outcome = r.outcome,
                                     !.value = r.value, !.document = document])
            /\ now' = t

\* the reader matches the citation it was just given, or a copy of it that
\* names a foreign protocol, with one of its documents
CitationMatchesOp ==
    /\ result.op = "citeDocument"
    /\ Succeeded(result)
    /\ \E citation \in {result.value, WithProtocol(result.value, ForeignProtocol)},
          document \in ReaderDocuments :
            LET r == CitationMatches(citation, document)
            IN  /\ Read([NoResult EXCEPT !.op = "citationMatches", !.outcome = r.outcome,
                                         !.flag = r.flag, !.expected = r.expected,
                                         !.actual = r.actual, !.citation = citation,
                                         !.document = document])
                /\ UNCHANGED now

ValidDocumentOp ==
    /\ result.op \notin readerOps
    /\ \E document \in ReaderDocuments, certificate \in ReaderCertificates :
        LET r == ValidDocument(document, certificate)
        IN  /\ Read([NoResult EXCEPT !.op = "validDocument", !.outcome = r.outcome,
                                     !.flag = r.flag, !.expected = r.expected,
                                     !.actual = r.actual, !.document = document,
                                     !.certificate = certificate])
            /\ UNCHANGED now

ReaderNext ==
    \/ result.op \notin readerOps /\ Next
    \/ CiteDocumentOp
    \/ CitationMatchesOp
    \/ ValidDocumentOp

ReaderSpec == Init /\ [][ReaderNext]_vars

(***************************************************************************)
(* The owner of both, who drives the notary, or else the security module   *)
(* itself                                                                  *)
(***************************************************************************)
notaryOps ==
    {"getCitation", "generateKey", "activateKey", "notarizeComponent", "refreshKey",
     "forgetKey"}

ssmOps ==
    {"getTag", "digestBytes", "validSignature", "generateKeys", "rotateKeys", "signBytes",
     "eraseKeys"}

OwnerNext ==
    \/ result.op \in notaryOps \cup {"none"} /\ Next
    \/ result.op \in ssmOps \cup {"none"} /\ SSMNext

OwnerSpec == Init /\ [][OwnerNext]_vars

(***************************************************************************)
(* The owner of the security module who does not await: a call is issued   *)
(* while another is in flight, and each goes on when what it awaits is     *)
(* there                                                                   *)
(***************************************************************************)
Free(c) == calls[c].pc \in {"idle", "done"}
InFlight(c) == ~Free(c)

\* what a step of a call of the SSM leaves behind
SsmStep(c, op, s) ==
    /\ nextTag + s.tags <= MaxTags + 1
    /\ nextKey + s.keys <= MaxKeys + 1
    /\ calls' = [calls EXCEPT ![c] =
                    [NoCall EXCEPT !.op = op, !.sub = s.call, !.outcome = s.call.outcome,
                                   !.pc = IF s.call.pc = "done" THEN "done" ELSE "ssm"]]
    /\ ssmFile' = s.ssm.file
    /\ ssmConfig' = s.ssm.config
    /\ ssmController' = s.ssm.controller
    /\ nextTag' = nextTag + s.tags
    /\ nextKey' = nextKey + s.keys
    /\ UNCHANGED <<now, notaryVars, heldDoc, heldCert, heldKey, result, legacy>>

stateOps == {"getTag", "generateKeys", "rotateKeys", "signBytes", "eraseKeys"}

SsmCallOp(c) ==
    /\ Free(c)
    /\ \E op \in stateOps :
        SsmStep(c, op, SsmBegin(op, IF op = "signBytes" THEN Bytes(UserComponent(1)) ELSE NoBytes,
                                Ssm))

SsmResumeOp(c) ==
    /\ calls[c].op \in stateOps
    /\ InFlight(c)
    /\ SsmStep(c, calls[c].op, SsmResume(calls[c].sub, Ssm, nextTag, nextKey))

SsmRejectOp(c) ==
    /\ calls[c].op \in stateOps
    /\ InFlight(c)
    /\ SsmStep(c, calls[c].op, SsmReject(calls[c].sub, Ssm))

\* the owner of the SSM calls it and awaits each call, and the configurator
\* and the signer can fail
SsmFaultSpec ==
    Init /\ [][SsmCallOp(1)
               \/ SsmResumeOp(1)
               \/ SsmRejectOp(1)]_vars

SsmCallsSpec ==
    Init /\ [][\E c \in Callers : SsmCallOp(c) \/ SsmResumeOp(c)]_vars

(***************************************************************************)
(* The caller of the notary who does not await                             *)
(***************************************************************************)
methods ==
    {"getCitation", "generateKey", "activateKey", "notarizeComponent", "refreshKey",
     "forgetKey"}

\* what the caller keeps of a call that has returned, as in Next
Kept(call, kept, ops) ==
    IF call.pc # "done" THEN kept
    ELSE IF call.outcome = Ok /\ call.op \in ops THEN call.made
    ELSE IF call.op = "forgetKey" THEN Undefined
    ELSE kept

\* what a step of a call of the notary leaves behind
CallStep(c, s) ==
    /\ nextTag + s.tags <= MaxTags + 1
    /\ nextKey + s.keys <= MaxKeys + 1
    /\ calls' = [calls EXCEPT ![c] = s.call]
    /\ notaryFile' = s.notary.file
    /\ notaryConfig' = s.notary.config
    /\ notaryController' = s.notary.controller
    /\ ssmFile' = s.ssm.file
    /\ ssmConfig' = s.ssm.config
    /\ ssmController' = s.ssm.controller
    /\ nextTag' = nextTag + s.tags
    /\ nextKey' = nextKey + s.keys
    /\ heldCert' = Kept(s.call, heldCert, {"generateKey", "refreshKey"})
    /\ heldDoc' = Kept(s.call, heldDoc, {"notarizeComponent"})
    /\ UNCHANGED <<heldKey, result, legacy>>

\* the arguments the caller has for a method, as in Next
Arguments(op) ==
    IF op = "activateKey"
    THEN {heldDoc, ExternallySigned(IF heldCert # Undefined THEN heldCert
                                    ELSE UserComponent(1))} \ {Undefined}
    ELSE IF op = "notarizeComponent"
    THEN {certificate \in {heldCert} : HasParameter(certificate, "tag")}
            \cup {UserComponent(1)}
    ELSE {Undefined}

\* bali.moment() is read in the step or the clock is left alone
ClockRead(t, read, unread) == t = now \/ read # unread

CallOp(c) ==
    /\ Free(c)
    /\ \E op \in methods, t \in Moments :
        \E given \in Arguments(op) :
            /\ ClockRead(t, CallBegin(op, given, Notary, Ssm, t),
                         CallBegin(op, given, Notary, Ssm, now))
            /\ CallStep(c, [CallBegin(op, given, Notary, Ssm, t)
                                EXCEPT !.call.faults = calls[c].faults])
            /\ now' = t

ResumeOp(c) ==
    /\ calls[c].op \in methods
    /\ InFlight(c)
    /\ \E t \in Moments :
        LET tag == nextTag + (IF calls[c].sub.pc = "load" THEN 1 ELSE 0)
        IN  /\ ClockRead(t, CallResume(calls[c], Notary, Ssm, t, tag, nextTag, nextKey),
                         CallResume(calls[c], Notary, Ssm, now, tag, nextTag, nextKey))
            /\ CallStep(c, CallResume(calls[c], Notary, Ssm, t, tag, nextTag, nextKey))
            /\ now' = t

\* the promise a call awaits can be rejected: it is that of the
\* configurator, the signer or the hash
Rejectable(call) ==
    \/ call.sub.pc \notin {"idle", "done"}
    \/ call.pc \in {"load", "storeDefault", "store", "delete", "digestBytes"}

\* the rejections so far
Faults == calls[1].faults + calls[2].faults

RejectOp(c) ==
    /\ calls[c].op \in methods
    /\ InFlight(c)
    /\ Rejectable(calls[c])
    /\ Faults < MaxFaults
    /\ CallStep(c, [CallReject(calls[c], Notary, Ssm)
                        EXCEPT !.call.faults = calls[c].faults + 1])
    /\ UNCHANGED now

\* one call after the other, each awaited
SoloSpec ==
    Init /\ [][CallOp(1)
               \/ ResumeOp(1)]_vars

\* the same with a configurator, a signer and a hash that can fail
FaultSpec ==
    Init /\ [][CallOp(1)
               \/ ResumeOp(1)
               \/ RejectOp(1)]_vars

\* the process ends and a notary and an SSM are constructed again on the
\* same directory: the files stay, var configuration and var controller
\* of both are undefined again, and the calls in flight and what the
\* caller held are gone
Crash ==
    /\ InFlight(1) \/ notaryConfig # NoNotaryConfig \/ ssmConfig # NoSsmConfig
    /\ calls' = [c \in Callers |-> [NoCall EXCEPT !.faults = calls[c].faults]]
    /\ notaryConfig' = NoNotaryConfig
    /\ notaryController' = "undefined"
    /\ ssmConfig' = NoSsmConfig
    /\ ssmController' = "undefined"
    /\ heldDoc' = Undefined
    /\ heldCert' = Undefined
    /\ UNCHANGED <<notaryFile, ssmFile, now, nextKey, nextTag, heldKey, result, legacy>>

\* one call after the other, with promises that can be rejected and a
\* process that can end at any await
CrashSpec ==
    Init /\ [][CallOp(1)
               \/ ResumeOp(1)
               \/ RejectOp(1)
               \/ Crash]_vars

\* the same with promises that are all resolved
RestartSpec ==
    Init /\ [][CallOp(1)
               \/ ResumeOp(1)
               \/ Crash]_vars

\* the calls issued so far by the caller who does not await
Issued == IF calls[1].nth > calls[2].nth THEN calls[1].nth ELSE calls[2].nth

\* the next of MaxCalls calls, issued while the one before may be in flight
IssueOp(c) ==
    /\ Free(c)
    /\ Issued < MaxCalls
    /\ \E op \in methods :
        \E given \in Arguments(op) :
            LET s == CallBegin(op, given, Notary, Ssm, now)
            IN  /\ CallStep(c, [s EXCEPT !.call.nth = Issued + 1])
                /\ UNCHANGED now

CallsSpec ==
    Init /\ [][\E c \in Callers : IssueOp(c) \/ ResumeOp(c)]_vars

TypeOK ==
    /\ now \in 0..MaxTime
    /\ nextKey \in 1..(MaxKeys + 1)
    /\ notaryFile.state \in {"undefined", "limited", "pending", "enabled"}
    /\ ssmFile.state \in {"undefined", "keyless", "loneKey", "twoKeys"}

(***************************************************************************)
(* Properties                                                              *)
(***************************************************************************)
Called(op) == result.op = op
Returned(op) == result.op = op /\ Succeeded(result)
Rejected(op) == result.op = op /\ FailsWith(result, "invalidEvent")

\* the phase the next notary operation starts from
NotaryPhase == IF notaryFile = NoNotaryConfig THEN "limited" ELSE notaryFile.state

\* the state the next SSM operation starts from
SsmPhase == IF ssmFile = NoSsmConfig THEN "keyless" ELSE ssmFile.state

\* the pairs the notary's transition table of the specification leaves empty
IllegalEvents ==
    {<<"limited", "activateKey">>, <<"limited", "getCitation">>,
     <<"limited", "notarizeComponent">>, <<"limited", "refreshKey">>,
     <<"pending", "generateKey">>, <<"pending", "getCitation">>,
     <<"pending", "refreshKey">>,
     <<"enabled", "generateKey">>, <<"enabled", "activateKey">>}

\* C1: an event the notary's table has no entry for, called in limited,
\* pending or enabled, fails with invalidEvent as its cause and leaves the
\* persisted notary configuration and the persisted SSM configuration as
\* they were
C1_IllegalEventRejected ==
    [][(notaryFile # NoNotaryConfig /\ <<notaryFile.state, result'.op>> \in IllegalEvents)
        => /\ FailsWith(result', "invalidEvent")
           /\ notaryFile' = notaryFile
           /\ ssmFile' = ssmFile]_vars

C1_Witness == Rejected("generateKey") /\ notaryFile.state = "enabled"

\* the pairs the SSM's transition table of the specification leaves empty
SsmIllegalEvents ==
    {<<"loneKey", "generateKeys">>, <<"twoKeys", "generateKeys">>,
     <<"keyless", "signBytes">>,
     <<"keyless", "rotateKeys">>, <<"twoKeys", "rotateKeys">>}

\* C2: generateKeys in loneKey or twoKeys, signBytes in keyless and
\* rotateKeys in keyless or twoKeys fail with invalidEvent as their cause
\* and leave the persisted SSM configuration ($state and keys) as it was
C2_SsmIllegalEventRejected ==
    [][(ssmFile # NoSsmConfig /\ <<ssmFile.state, result'.op>> \in SsmIllegalEvents)
        => /\ FailsWith(result', "invalidEvent")
           /\ ssmFile' = ssmFile]_vars

C2_Witness == Rejected("rotateKeys") /\ ssmFile.state = "twoKeys"

\* C3: generateKey succeeds only from limited and leads to pending,
\* activateKey only from pending and leads to enabled, notarizeComponent
\* only in pending or enabled and stays there, getCitation and refreshKey
\* only in enabled and stay there; the phase changes only from limited to
\* pending, from pending to enabled, and to limited by forgetKey
C3_LegalTransitions ==
    [][/\ (result'.op = "generateKey" /\ Succeeded(result'))
            => NotaryPhase = "limited" /\ NotaryPhase' = "pending"
       /\ (result'.op = "activateKey" /\ Succeeded(result'))
            => NotaryPhase = "pending" /\ NotaryPhase' = "enabled"
       /\ (result'.op = "notarizeComponent" /\ Succeeded(result'))
            => NotaryPhase \in {"pending", "enabled"} /\ NotaryPhase' = NotaryPhase
       /\ (result'.op \in {"getCitation", "refreshKey"} /\ Succeeded(result'))
            => NotaryPhase = "enabled" /\ NotaryPhase' = "enabled"
       /\ NotaryPhase' # NotaryPhase
            => \/ <<NotaryPhase, NotaryPhase'>> \in
                    {<<"limited", "pending">>, <<"pending", "enabled">>}
               \/ NotaryPhase' = "limited" /\ result'.op = "forgetKey"]_vars

C3_Witness == Returned("notarizeComponent") /\ notaryFile.state = "pending"

\* C4: generateKeys succeeds only from keyless and leads to loneKey,
\* rotateKeys only from loneKey and leads to twoKeys, signBytes leads from
\* twoKeys and from loneKey to loneKey; nothing else but eraseKeys changes
\* the state
C4_SsmLegalTransitions ==
    [][/\ (result'.op = "generateKeys" /\ Succeeded(result'))
            => SsmPhase = "keyless" /\ SsmPhase' = "loneKey"
       /\ (result'.op = "rotateKeys" /\ Succeeded(result'))
            => SsmPhase = "loneKey" /\ SsmPhase' = "twoKeys"
       /\ (result'.op = "signBytes" /\ Succeeded(result'))
            => SsmPhase \in {"loneKey", "twoKeys"} /\ SsmPhase' = "loneKey"
       /\ ~(result'.op \in {"generateKeys", "rotateKeys", "signBytes"} /\ Succeeded(result'))
            => \/ SsmPhase' = SsmPhase
               \/ result'.op = "eraseKeys"]_vars

C4_Witness ==
    /\ Returned("signBytes")
    /\ ssmFile.state = "loneKey"
    /\ ~Verify(result.signature, result.bytes, ssmFile.publicKey)

\* C5: when signBytes is called with a previous private key in the
\* configuration, the signature is the previous key's and both previous
\* attributes are gone after the call, the key being nowhere in the
\* configuration any more; otherwise the signature is the current key's
C5_KeySelection ==
    [][(result'.op = "signBytes" /\ Succeeded(result'))
        => IF ssmFile.previousPrivateKey # 0
           THEN /\ Verify(result'.signature, result'.bytes, ssmFile.previousPublicKey)
                /\ ssmFile.previousPrivateKey = PrivateKey(ssmFile.previousPublicKey)
                /\ ssmFile'.previousPublicKey = 0
                /\ ssmFile'.previousPrivateKey = 0
                /\ ssmFile'.publicKey # ssmFile.previousPublicKey
                /\ ssmFile'.privateKey # ssmFile.previousPrivateKey
           ELSE /\ Verify(result'.signature, result'.bytes, ssmFile.publicKey)
                /\ ssmFile.privateKey = PrivateKey(ssmFile.publicKey)]_vars

C5_Witness ==
    /\ Returned("signBytes")
    /\ ssmFile.previousPrivateKey = 0
    /\ ssmFile.publicKey = PublicKey(2)
    /\ Verify(result.signature, result.bytes, PublicKey(1))

\* the certificate component of a certificate the notary stores or returns
ComponentOf(certificate) == GetValue(certificate, "$component")

SealedBytes(document) ==
    Bytes(UnsignedDocument(GetValue(document, "$component"), GetValue(document, "$timestamp"),
                           GetValue(document, "$certificate")))

C10_CitationKept ==
    [][/\ (result'.op = "activateKey" /\ Succeeded(result'))
            => result'.value = notaryFile'.citation /\ result'.value # Undefined
       /\ (result'.op = "getCitation" /\ Succeeded(result'))
            => /\ result'.value = notaryFile.citation
               /\ notaryFile'.citation = notaryFile.citation
               /\ notaryFile'.certificate = notaryFile.certificate
       /\ notaryFile'.citation # notaryFile.citation
            => /\ result'.op \in {"activateKey", "refreshKey", "forgetKey"}
               /\ Succeeded(result')]_vars

C10_Witness ==
    /\ Returned("getCitation")
    /\ result.value = notaryFile.citation
    /\ GetValue(result.value, "$timestamp") < now

\* C11: in pending, activateKey called with a signed certificate whose
\* $component is not the stashed $certificate fails with invalidCertificate
\* as its cause; the notary stays in pending, the stashed certificate is
\* unchanged, in the file and in memory, and no $citation is stored
C11_CertificateCheck ==
    [][(/\ result'.op = "activateKey"
        /\ notaryFile # NoNotaryConfig
        /\ notaryFile.state = "pending"
        /\ ComponentOf(result'.certificate) # notaryFile.certificate)
        => /\ FailsWith(result', "invalidCertificate")
           /\ notaryFile'.state = "pending"
           /\ notaryFile'.certificate = notaryFile.certificate
           /\ notaryFile'.citation = Undefined
           /\ notaryConfig' = notaryFile']_vars

C11_Witness ==
    /\ Called("activateKey")
    /\ FailsWith(result, "invalidCertificate")
    /\ notaryFile.state = "pending"
    /\ notaryFile.citation = Undefined
    /\ GetValue(ComponentOf(result.certificate), "$content") = 1

C13_ForgetKey ==
    [][/\ result'.op = "forgetKey"
            => /\ Succeeded(result')
               /\ notaryFile' = NoNotaryConfig /\ notaryConfig' = NoNotaryConfig
               /\ ssmFile' = NoSsmConfig /\ ssmConfig' = NoSsmConfig
       /\ (result.op = "forgetKey" /\ Succeeded(result))
            => /\ result'.op = "getCitation" => FailsWith(result', "invalidEvent")
               /\ result'.op \in {"activateKey", "notarizeComponent", "refreshKey"}
                    => FailsWith(result', "invalidEvent")
               /\ result'.op \in {"getCitation", "activateKey", "notarizeComponent", "refreshKey"}
                    => /\ notaryFile'.state = "limited"
                       /\ notaryFile'.certificate = Undefined
                       /\ ssmFile' = NoSsmConfig
               /\ result'.op = "generateKey"
                    => /\ Succeeded(result')
                       /\ notaryFile'.state = "pending"
                       /\ ssmFile'.state = "loneKey"
                       /\ ssmFile'.previousPrivateKey = 0]_vars

C13_Witness ==
    /\ Rejected("getCitation")
    /\ notaryFile.state = "limited"
    /\ ssmFile = NoSsmConfig
    /\ nextKey = 3

\* C14: eraseKeys succeeds whatever the state of the SSM and leaves no file
\* and no configuration in memory, so no private or previous key; called
\* again it leaves the same; the SSM operation that next loads the state,
\* whatever was called in between, loads a keyless
\* configuration with a tag not handed out before and no key: getTag
\* returns that tag, generateKeys leads to a lone key, and signBytes and
\* rotateKeys fail with invalidEvent as their cause
C14_EraseKeys ==
    [][/\ result'.op = "eraseKeys"
            => /\ Succeeded(result')
               /\ ssmFile' = NoSsmConfig
               /\ ssmConfig' = NoSsmConfig
       /\ (result.op = "eraseKeys" /\ result'.op = "eraseKeys")
            => ssmFile' = ssmFile /\ ssmConfig' = ssmConfig
       /\ (ssmFile = NoSsmConfig /\ ssmConfig = NoSsmConfig
            /\ result'.op \in {"getTag", "generateKeys", "signBytes", "rotateKeys"})
            => /\ ssmFile'.tag = nextTag
               /\ nextTag' = nextTag + 1
               /\ ssmFile'.previousPublicKey = 0 /\ ssmFile'.previousPrivateKey = 0
               /\ result'.op = "getTag" => result'.key = ssmFile'.tag
               /\ result'.op = "generateKeys"
                    => Succeeded(result') /\ ssmFile'.state = "loneKey"
               /\ result'.op \in {"signBytes", "rotateKeys"}
                    => FailsWith(result', "invalidEvent")
               /\ result'.op # "generateKeys"
                    => /\ ssmFile'.state = "keyless"
                       /\ ssmFile'.publicKey = 0 /\ ssmFile'.privateKey = 0]_vars

C14_Witness ==
    /\ Returned("getTag")
    /\ ssmFile.state = "keyless"
    /\ ssmFile.privateKey = 0
    /\ result.key = 2
    /\ nextKey = 3

\* C15: citeDocument of a notarized document d returns a citation, and
\* citationMatches of that citation and a document is true when the
\* document is d and false when its canonical bytes differ from those of d
C15_CitationRoundTrip ==
    [][/\ result'.op = "citeDocument" => Succeeded(result')
       /\ (/\ result.op = "citeDocument"
           /\ result'.op = "citationMatches"
           /\ result'.citation = result.value)
            => /\ Succeeded(result')
               /\ result'.document = result.document => result'.flag = TRUE
               /\ Bytes(result'.document) # Bytes(result.document)
                    => result'.flag = FALSE]_vars

C15_Witness ==
    /\ Returned("citationMatches")
    /\ result.flag = FALSE
    /\ result.document = heldDoc
    /\ GetValue(result.citation, "$digest") # Hash(Bytes(heldDoc))
    /\ GetValue(result.citation, "$protocol") = PROTOCOL

\* C16 as stated: the signature the next signBytes(b) returns after
\* generateKeys or rotateKeys returned the public key pk satisfies
\* validSignature(pk, signature, b)
C16_AsStated ==
    [][(result'.op = "signBytes" /\ Succeeded(result') /\ heldKey.fresh)
        => SsmValidSignature(heldKey.key, result'.signature, result'.bytes)]_vars

\* C16: after generateKeys returned pk, the signature of every signBytes(b)
\* up to the next rotateKeys satisfies validSignature(pk, signature, b);
\* after rotateKeys returned pk, the signature of the next signBytes(b)
\* satisfies validSignature with the public key returned before the
\* rotation and not with pk, and those of the later ones do with pk
C16_SignVerify ==
    [][(result'.op = "signBytes" /\ Succeeded(result'))
        => IF heldKey.fresh /\ heldKey.before # NoKey
           THEN /\ ~SsmValidSignature(heldKey.key, result'.signature, result'.bytes)
                /\ SsmValidSignature(heldKey.before, result'.signature, result'.bytes)
           ELSE /\ heldKey.key # NoKey
                /\ SsmValidSignature(heldKey.key, result'.signature, result'.bytes)]_vars

C16_Witness ==
    /\ Returned("signBytes")
    /\ heldKey = [key |-> PublicKey(2), before |-> PublicKey(1), fresh |-> FALSE]
    /\ SsmValidSignature(PublicKey(2), result.signature, result.bytes)

\* the copies of the held document with another $component and a signature
\* made with a key that is not the one in the notary's current certificate
TamperedByOthers ==
    {Tampered(heldDoc, pair) : pair \in
        {p \in SomePairs :
            PublicKey(p) # GetValue(ComponentOf(notaryFile.certificate), "$publicKey")}}

C18_UnsupportedProtocol ==
    /\ (Called("citationMatches") /\ GetValue(result.citation, "$protocol") # "v1")
            => /\ ~Succeeded(result)
               /\ FailsWith(result, "unsupportedProtocol")
               /\ result.expected = {"v1"}
               /\ result.actual = GetValue(result.citation, "$protocol")
    /\ (Called("validDocument") /\ GetValue(result.certificate, "$protocol") # "v1")
            => /\ ~Succeeded(result)
               /\ FailsWith(result, "unsupportedProtocol")
               /\ result.expected = {"v1"}
               /\ result.actual = GetValue(result.certificate, "$protocol")

C18_Witness ==
    /\ Called("citationMatches")
    /\ GetValue(result.citation, "$protocol") = "v99"
    /\ result.document = heldDoc
    /\ GetValue(result.citation, "$digest") = Hash(Bytes(heldDoc))
    /\ FailsWith(result, "unsupportedProtocol")
    /\ result.actual = "v99"

\* the private keys made so far
PrivateKeys == {PrivateKey(pair) : pair \in 1..nextKey}

\* the bytes read back as the catalog they are the text of
AsCatalog(bytes) ==
    Catalog([i \in 1..Len(bytes.attributes) |-> bytes.attributes[i][1]],
            [i \in 1..Len(bytes.attributes) |-> bytes.attributes[i][2]],
            bytes.parameters)

\* the numbers found anywhere in a catalog: in its attributes, in the
\* catalogs, signatures, signed bytes and digests among them, and in its
\* parameters
RECURSIVE Numbers(_)
Numbers(catalog) ==
    LET In(key, value) ==
            IF key \in {"$component", "$certificate"} THEN Numbers(value)
            ELSE IF key = "$signature"
                 THEN {value.signer} \cup Numbers(AsCatalog(value.signed))
            ELSE IF key = "$digest" THEN Numbers(AsCatalog(value.sha512))
            ELSE IF key = "$protocol" THEN {}
            ELSE {value}
    IN  UNION {In(catalog.keys[i], catalog.vals[i]) : i \in 1..Len(catalog.keys)}
        \cup (IF HasParameter(catalog, "previous")
              THEN {catalog.params.tag, catalog.params.version}
                   \cup Numbers(catalog.params.previous)
              ELSE {})

\* C19: no value a method of the SSM returns (a public key, a tag, a
\* signature) and no value the notary returns, keeps in memory or stores in
\* its file is or contains a private key, current or previous, of the SSM;
\* the private keys are in the configuration of the SSM only
C19_KeyConfinement ==
    /\ result.key \notin PrivateKeys
    /\ result.signature.signer \notin PrivateKeys
    /\ Numbers(result.value) \cap PrivateKeys = {}
    /\ Numbers(notaryFile.certificate) \cap PrivateKeys = {}
    /\ Numbers(notaryFile.citation) \cap PrivateKeys = {}
    /\ Numbers(notaryConfig.certificate) \cap PrivateKeys = {}
    /\ Numbers(notaryConfig.citation) \cap PrivateKeys = {}
    /\ Numbers(heldDoc) \cap PrivateKeys = {}
    /\ Numbers(heldCert) \cap PrivateKeys = {}

C19_Witness ==
    /\ Returned("refreshKey")
    /\ ssmFile.privateKey = PrivateKey(2)
    /\ ssmFile.privateKey \in PrivateKeys
    /\ PublicKey(1) \in Numbers(notaryFile.citation)
    /\ PublicKey(2) \in Numbers(result.value)
    /\ PrivateKey(1) \notin Numbers(result.value)

\* the kinds the specification has thrown directly, as far as a call of
\* this model meets them
SpecificKinds == {"invalidEvent", "invalidCertificate", "unsupportedProtocol"}

\* the outermost kind of the exception a failed call surfaces
OutermostKind(r) == r.outcome[1]

C21_PureCalls ==
    [][result'.op \in {"digestBytes", "validSignature"}
        => /\ Succeeded(result')
           /\ ssmFile' = ssmFile
           /\ ssmConfig' = ssmConfig
           /\ ssmController' = ssmController
           /\ nextTag' = nextTag
           /\ result'.op = "digestBytes" => result'.digest = Hash(result'.bytes)
           /\ result'.op = "validSignature"
                => result'.flag = (/\ result'.signature.signer = result'.key
                                   /\ result'.signature.signed = result'.bytes)]_vars

C21_Witness ==
    /\ Called("validSignature")
    /\ ssmFile.state = "twoKeys"
    /\ result.flag
    /\ result.key = ssmFile.previousPublicKey


\* the methods the step order is stated of, and the awaits of a call of the SSM
orderedOps == {"generateKey", "activateKey", "notarizeComponent", "refreshKey"}
ssmAwaits == {"generateKeys", "rotateKeys", "signBytes", "digestBytes"}

\* C22: in generateKey, activateKey, notarizeComponent and refreshKey, called
\* one at a time, (1) the step that issues the method's first call of the
\* SSM is taken only with the event allowed in the state in memory, (2) as
\* long as the method waits for a call of the SSM the configuration in
\* memory has no field modified, that is, it is the persisted one, and
\* (3) the method returns only with the configuration in memory persisted
C22_AsStated ==
    [][calls'[1].op \in orderedOps
        => /\ (calls'[1].pc \in ssmAwaits /\ calls[1].pc \notin ssmAwaits)
                => EventAllowed(REQUESTS, STATES, notaryFile'.state, "$" \o calls'[1].op)
           /\ calls'[1].pc \in ssmAwaits => notaryConfig' = notaryFile'
           /\ (calls'[1].pc = "done" /\ calls'[1].outcome = Ok)
                => /\ calls[1].pc = "store"
                   /\ notaryFile' = notaryConfig'
                   /\ notaryFile'.state = NextState(REQUESTS, STATES, notaryFile.state,
                                                    "$" \o calls'[1].op)]_vars


\* the instance as a new one would find it: nothing in memory, the files as
\* they are
Reloaded(component, nothing) == [component EXCEPT !.config = nothing]

\* how the methods called next would end
LaterOutcomes(notary, ssm) ==
    <<GetCitation(notary, ssm).outcome,
      GenerateKey(notary, ssm, now, nextTag, nextTag + 1, nextKey).outcome,
      NotarizeComponent(notary, ssm, UserComponent(1), now, nextTag).outcome,
      RefreshKey(notary, ssm, now, nextTag, nextKey).outcome,
      IF heldDoc = Undefined THEN Ok ELSE ActivateKey(notary, ssm, heldDoc, now).outcome>>

\* C23: (1) the file of the notary and the file of the SSM change only in
\* the step that completes the store or the delete of a method, which then
\* returns, or in the store of the default configuration of a missing
\* file, so a method that throws leaves them as they were; (2) when a method
\* throws, every method called next ends as it would on an instance that
\* has only the persisted configurations
C23_AsStated ==
    [][/\ notaryFile' # notaryFile
            => /\ calls[1].pc \in {"storeDefault", "store", "delete"}
               /\ calls[1].pc # "storeDefault"
                    => calls'[1].pc = "done" /\ calls'[1].outcome = Ok
       /\ ssmFile' # ssmFile
            => /\ calls[1].sub.pc \in {"storeDefault", "store", "delete"}
               /\ calls[1].sub.pc # "storeDefault"
                    => calls'[1].sub.pc = "done" /\ calls'[1].sub.outcome = Ok
       /\ (calls[1].pc # "done" /\ calls'[1].pc = "done" /\ calls'[1].outcome # Ok)
            => LaterOutcomes(Notary, Ssm)'
                = LaterOutcomes(Reloaded(Notary, NoNotaryConfig),
                                Reloaded(Ssm, NoSsmConfig))']_vars


\* a method run from call to return with nothing in between, as in Next
Awaited(op, given, notary, ssm, ssmTag, tag, pair) ==
    CASE op = "getCitation" -> GetCitation(notary, ssm)
      [] op = "generateKey" -> GenerateKey(notary, ssm, now, ssmTag, tag, pair)
      [] op = "activateKey" -> ActivateKey(notary, ssm, given, now)
      [] op = "notarizeComponent" -> NotarizeComponent(notary, ssm, given, now, ssmTag)
      [] op = "refreshKey" -> RefreshKey(notary, ssm, now, ssmTag, pair)
      [] op = "forgetKey" -> ForgetKey(notary, ssm)

\* what is compared of a final state: the persisted states, whether the
\* stashed certificate has the persisted public key, and whether what is
\* in memory is what is persisted
CertifiedKey(certificate) ==
    LET component == IF HasKey(certificate, "$component")
                     THEN GetValue(certificate, "$component")
                     ELSE certificate
    IN  IF HasKey(component, "$publicKey") THEN GetValue(component, "$publicKey") ELSE NoKey

Final(notary, ssm) ==
    [notary |-> notary.file.state,
     ssm |-> ssm.file.state,
     certified |-> CertifiedKey(notary.file.certificate) = ssm.file.publicKey,
     memory |-> /\ notary.config \in {NoNotaryConfig, notary.file}
                /\ ssm.config \in {NoSsmConfig, ssm.file}]

\* the results and the final state of a call and then another, each
\* awaited, on a new notary and SSM
OneAfterTheOther(a, b) ==
    LET none == [file |-> NoNotaryConfig, config |-> NoNotaryConfig,
                 controller |-> "undefined"]
        nokeys == [file |-> NoSsmConfig, config |-> NoSsmConfig, controller |-> "undefined"]
        first == Awaited(a.op, a.given, none, nokeys, 1, 2, 1)
        second == Awaited(b.op, b.given, first.notary, first.ssm, 3, 4, 2)
    IN  [results |-> {<<a.nth, RootCause(first)>>, <<b.nth, RootCause(second)>>},
         final |-> Final(second.notary, second.ssm)]

\* C24: when the first two calls of a new notary, the second issued while
\* the first may be in flight, have both returned or thrown, their results
\* and the final state are those of the two calls made one after the other
\* in one of the two orders; of two generateKey calls one returns and one
\* throws with invalidEvent as its cause, and the stashed certificate has
\* the public key the SSM has persisted
C24_AsStated ==
    (/\ calls[1].pc = "done" /\ calls[2].pc = "done"
     /\ {calls[1].nth, calls[2].nth} = {1, 2})
        => /\ [results |-> {<<calls[c].nth, RootCause(calls[c])>> : c \in Callers},
                final |-> Final(Notary, Ssm)]
                    \in {OneAfterTheOther(calls[1], calls[2]),
                         OneAfterTheOther(calls[2], calls[1])}
           /\ (calls[1].op = "generateKey" /\ calls[2].op = "generateKey")
                => /\ {RootCause(calls[c]) : c \in Callers} = {"none", "invalidEvent"}
                   /\ CertifiedKey(notaryFile.certificate) = ssmFile.publicKey


\* the awaits of the SSM between validateEvent and transitionState
keyAwaits == {"createKeyPair", "sign"}

\* C25: (1) no call waits between the validateEvent that reads the state
\* and the transitionState that writes it, nor, in rotateKeys, between
\* saving the current pair as the previous one and overwriting it: a call
\* in flight waits for no call of the SSM, no key pair and no signature;
\* (2) so the state a call's transition finds is the state its event was
\* validated in, and a call that passed validateEvent does not throw
\* invalidEvent, and rotateKeys overwrites the pair it saved
C25_AsStated ==
    [][\A c \in Callers :
        /\ calls'[c].pc # "done"
            => calls'[c].pc \notin ssmAwaits /\ calls'[c].sub.pc \notin keyAwaits
        /\ (calls[c].sub.pc \in keyAwaits /\ calls'[c].sub.pc = "done")
            => RootCause(calls'[c].sub) # "invalidEvent"
        /\ (calls[c].sub.op = "rotateKeys" /\ calls[c].sub.pc = "createKeyPair"
                /\ calls'[c].sub.pc = "store")
            => ssmConfig'.previousPublicKey = ssmConfig.publicKey]_vars


\* the three shapes of a persisted SSM configuration
Shaped(file) ==
    \/ file = NoSsmConfig
    \/ /\ file.state = "keyless"
       /\ file.publicKey = 0 /\ file.privateKey = 0
       /\ file.previousPublicKey = 0 /\ file.previousPrivateKey = 0
    \/ /\ file.state = "loneKey"
       /\ file.publicKey # 0 /\ file.privateKey = PrivateKey(file.publicKey)
       /\ file.previousPublicKey = 0 /\ file.previousPrivateKey = 0
    \/ /\ file.state = "twoKeys"
       /\ file.publicKey # 0 /\ file.privateKey = PrivateKey(file.publicKey)
       /\ file.previousPublicKey # 0
       /\ file.previousPrivateKey = PrivateKey(file.previousPublicKey)

\* C26: whatever calls are issued and however they overlap, the file of the
\* SSM, when there is one, has one of the three shapes, and a file that
\* comes to hold two pairs has as the previous pair the one the file held
\* as the current pair before, and a new current pair
C26_AsStated ==
    [][/\ Shaped(ssmFile')
       /\ (ssmFile'.state = "twoKeys" /\ ssmFile.state # "twoKeys")
            => /\ ssmFile'.previousPublicKey = ssmFile.publicKey
               /\ ssmFile'.previousPrivateKey = ssmFile.privateKey
               /\ ssmFile'.publicKey # ssmFile.publicKey]_vars


\* C27: the tag of the SSM is set when a missing configuration is loaded
\* and stays: as long as the file is not deleted by eraseKeys its $tag does
\* not change, and every call of getTag that returns, overlapping with
\* others or not, returns the $tag of the file
C27_AsStated ==
    [][/\ (ssmFile # NoSsmConfig /\ ssmFile' # NoSsmConfig) => ssmFile'.tag = ssmFile.tag
       /\ \A c \in Callers :
            (calls'[c].op = "getTag" /\ calls[c].pc # "done" /\ calls'[c].pc = "done"
                /\ calls'[c].outcome = Ok)
                => calls'[c].sub.key = ssmFile'.tag]_vars


\* forgetKey, generateKey, notarizeComponent of the certificate returned and
\* activateKey of the notarized certificate, each awaited: what each
\* throws, and the states the last leaves
Recovery(notary, ssm) ==
    LET forgotten == ForgetKey(notary, ssm)
        generated == GenerateKey(forgotten.notary, forgotten.ssm, now, nextTag, nextTag + 1,
                                 nextKey)
        notarized == NotarizeComponent(generated.notary, generated.ssm, generated.value, now,
                                       nextTag)
        activated == ActivateKey(notarized.notary, notarized.ssm, notarized.value, now)
    IN  [outcomes |-> <<forgotten.outcome, generated.outcome, notarized.outcome,
                        activated.outcome>>,
         notary |-> activated.notary.file.state,
         ssm |-> activated.ssm.file.state]

\* C28: whatever the files and the memory of the notary and the SSM have
\* come to hold, by calls that returned, calls that threw when a promise
\* was rejected and processes that ended in the middle of a call, when no
\* call is in flight forgetKey, generateKey, notarizeComponent of the
\* certificate and activateKey of the result all succeed and leave the
\* notary enabled, with the SSM holding one key pair
C28_Recovery ==
    Free(1) => Recovery(Notary, Ssm) = [outcomes |-> <<Ok, Ok, Ok, Ok>>,
                                        notary |-> "enabled", ssm |-> "loneKey"]

\* the process ended after the SSM persisted its first key pair and before
\* the notary persisted
C28_Witness ==
    /\ Free(1)
    /\ notaryFile.state = "limited"
    /\ ssmFile.state = "loneKey"
    /\ notaryConfig = NoNotaryConfig
    /\ ssmConfig = NoSsmConfig


\* the default configuration of a notary without a file
NewNotary == [NoNotaryConfig EXCEPT !.state = "limited"]

\* the call throws in this step, with invalidEvent at the bottom of the causes
ThrowsInvalidEvent(c) ==
    calls[c].pc # "done" /\ calls'[c].pc = "done" /\ RootCause(calls'[c]) = "invalidEvent"

\* C29: a method that finds no file of the notary stores the default
\* configuration, in state limited, when its load completes, and the SSM
\* one with the tag just drawn, keyless and without keys; a file that was
\* missing appears in no other way; so a method that throws invalidEvent
\* leaves the file of the notary, and of the SSM when the SSM threw it,
\* and on a missing file it is that default
C29_DefaultStoredFirst ==
    [][/\ (calls[1].pc = "storeDefault" /\ calls'[1].op = calls[1].op
            /\ calls'[1].pc # "storeDefault" /\ RootCause(calls'[1]) # "configurator")
            => notaryFile' = NewNotary
       /\ (notaryFile = NoNotaryConfig /\ notaryFile' # NoNotaryConfig)
            => notaryFile' = NewNotary /\ calls[1].pc = "storeDefault"
       /\ (ssmFile = NoSsmConfig /\ ssmFile' # NoSsmConfig)
            => /\ ssmFile' = [NoSsmConfig EXCEPT !.tag = nextTag - 1, !.state = "keyless"]
               /\ calls[1].sub.pc = "storeDefault"
       /\ ThrowsInvalidEvent(1)
            => /\ notaryFile' # NoNotaryConfig
               /\ notaryFile # NoNotaryConfig => notaryFile' = notaryFile
               /\ calls'[1].sub.outcome # Ok => ssmFile' # NoSsmConfig]_vars

\* getCitation, the first call on a new notary, has thrown invalidEvent
C29_Witness ==
    /\ calls[1].op = "getCitation"
    /\ calls[1].pc = "done"
    /\ RootCause(calls[1]) = "invalidEvent"
    /\ notaryFile = NewNotary
    /\ ssmFile = NoSsmConfig
    /\ nextKey = 1


\* C30: citeDocument, citationMatches and validDocument leave the file, the
\* configuration and the controller of the notary and of the SSM as they
\* were, whatever the state, also with no file and in limited; none throws
\* invalidEvent, citeDocument of a document with a $component returns, and
\* citationMatches and validDocument throw only for a protocol that is not
\* supported or an attribute that is missing; the citation returned has
\* the tag and the version of the parameters of the document's $component
\* and the protocol of this notary
C30_ReadersStateless ==
    [][result'.op \in readerOps
        => /\ notaryVars' = notaryVars
           /\ ssmVars' = ssmVars
           /\ RootCause(result') \in {"none", "unsupportedProtocol", "TypeError"}
           /\ result'.op = "citeDocument"
                => /\ Succeeded(result') = HasKey(result'.document, "$component")
                   /\ Succeeded(result')
                        => LET component == GetValue(result'.document, "$component")
                           IN  /\ GetValue(result'.value, "$tag") = GetParameter(component, "tag")
                               /\ GetValue(result'.value, "$version")
                                    = GetParameter(component, "version")
                               /\ GetValue(result'.value, "$protocol") = PROTOCOL
           /\ (result'.op = "citationMatches"
                /\ GetValue(result'.citation, "$protocol") = PROTOCOL)
                => Succeeded(result')]_vars

\* citeDocument has returned a citation on a notary that has no file and
\* has loaded nothing
C30_Witness ==
    /\ result.op = "citeDocument"
    /\ Succeeded(result)
    /\ notaryFile = NoNotaryConfig
    /\ notaryConfig = NoNotaryConfig
    /\ ssmFile = NoSsmConfig
    /\ GetValue(result.value, "$tag") = UserTag


\* the state of the SSM, in the file and in memory, is among these, a
\* missing file and an undefined var configuration counted in
SsmIn(states) ==
    /\ ssmFile = NoSsmConfig \/ ssmFile.state \in states
    /\ ssmConfig = NoSsmConfig \/ ssmConfig.state \in states

\* C31: with calls issued one after the other and no failure, when no call
\* is in progress a notary that is limited, or has no file, has an SSM that
\* is keyless or has no file, and a notary that is pending or enabled has
\* an SSM with a file in loneKey and no previous key; the SSM is in twoKeys,
\* in its file or in memory, only while refreshKey waits for rotateKeys or
\* for signBytes
C31_LayersCorrespond ==
    /\ (Free(1) /\ NotaryPhase = "limited")
            => ssmFile = NoSsmConfig \/ ssmFile.state = "keyless"
    /\ (Free(1) /\ NotaryPhase \in {"pending", "enabled"})
            => /\ ssmFile.state = "loneKey"
               /\ ssmFile.previousPublicKey = 0
               /\ ssmFile.previousPrivateKey = 0
               /\ SsmIn({"loneKey"})
    /\ ~SsmIn({"keyless", "loneKey"})
            => /\ calls[1].op = "refreshKey"
               /\ calls[1].pc \in {"rotateKeys", "signBytes"}

\* refreshKey has returned
C31_Witness ==
    /\ calls[1].op = "refreshKey"
    /\ calls[1].pc = "done"
    /\ calls[1].outcome = Ok
    /\ notaryFile.state = "enabled"
    /\ ssmFile.state = "loneKey"
    /\ ssmFile.publicKey = PublicKey(2)


\* C32: with calls issued one after the other and no failure, when no call
\* is in progress the certificate a pending notary stores is a component
\* whose $publicKey is the current public key in the file of the SSM, and
\* the certificate an enabled notary stores is a document whose $component
\* has it
C32_KeysAgree ==
    /\ (Free(1) /\ notaryFile.state = "pending")
            => /\ ~HasKey(notaryFile.certificate, "$component")
               /\ HasKey(notaryFile.certificate, "$publicKey")
               /\ GetValue(notaryFile.certificate, "$publicKey") = ssmFile.publicKey
    /\ (Free(1) /\ notaryFile.state = "enabled")
            => /\ HasKey(notaryFile.certificate, "$component")
               /\ HasKey(GetValue(notaryFile.certificate, "$component"), "$publicKey")
               /\ GetValue(GetValue(notaryFile.certificate, "$component"), "$publicKey")
                    = ssmFile.publicKey
    /\ (Free(1) /\ notaryFile.state \in {"pending", "enabled"})
            => ssmFile.publicKey # NoKey /\ notaryConfig \in {NoNotaryConfig, notaryFile}

\* refreshKey has returned the certificate of the second key pair
C32_Witness ==
    /\ Returned("refreshKey")
    /\ notaryFile.state = "enabled"
    /\ ssmFile.publicKey = PublicKey(2)
    /\ CertifiedKey(notaryFile.certificate) = PublicKey(2)


\* notarizeComponent returns in this step
Notarizes(c) ==
    /\ calls'[c].op = "notarizeComponent"
    /\ calls[c].pc # "done"
    /\ calls'[c].pc = "done"
    /\ calls'[c].outcome = Ok

\* C33: whatever happened before, a refreshKey that threw or a process
\* that ended after rotateKeys stored included, a document notarizeComponent
\* returns has as its $certificate the citation the notary stores, when it
\* stores one, and validDocument accepts it with the component of the
\* certificate the notary stores
C33_AsStated ==
    [][\A c \in Callers :
        (Notarizes(c) /\ notaryFile'.state = "enabled")
            => /\ GetValue(calls'[c].made, "$certificate") = notaryFile'.citation
               /\ Returns(ValidDocument(calls'[c].made, ComponentOf(notaryFile'.certificate)),
                          TRUE)]_vars


\* C34: when a call has returned or thrown, a promise rejected by the
\* signer, the hash or the configurator included, the configuration the
\* notary has in memory, when it has one, is the one in its file and its
\* controller is in the $state of the file, and so for the SSM
C34_AsStated ==
    Free(1)
        => /\ notaryConfig # NoNotaryConfig
                => notaryConfig = notaryFile /\ notaryController = notaryFile.state
           /\ ssmConfig # NoSsmConfig
                => ssmConfig = ssmFile /\ ssmController = ssmFile.state


\* signBytes returns in this step
Signs(c) ==
    /\ calls'[c].sub.op = "signBytes"
    /\ calls[c].sub.pc = "store"
    /\ calls'[c].sub.pc = "done"
    /\ calls'[c].sub.outcome = Ok

\* C35: whatever calls of signBytes threw before, because the signer or
\* the configurator failed, a call of signBytes that returns while the file
\* of the SSM holds a previous key pair has signed with that pair, and
\* leaves a file in loneKey without it
C35_AsStated ==
    [][\A c \in Callers :
        (Signs(c) /\ ssmFile.previousPublicKey # 0)
            => /\ calls'[c].sub.signature
                    = Sign(calls'[c].sub.bytes, ssmFile.previousPublicKey,
                           ssmFile.previousPrivateKey)
               /\ ssmFile'.state = "loneKey"
               /\ ssmFile'.previousPublicKey = 0
               /\ ssmFile'.previousPrivateKey = 0]_vars


\* C36: the previous key pair in the file of the SSM is removed or
\* overwritten only by eraseKeys or by a call of signBytes that returns a
\* signature made with it, so a second rotateKeys does not replace it and
\* no key that was current at a rotateKeys goes without signing
C36_AsStated ==
    [][(ssmFile.previousPublicKey # 0
            /\ ssmFile'.previousPublicKey # ssmFile.previousPublicKey)
        => \E c \in Callers :
            \/ calls[c].sub.op = "eraseKeys" /\ ssmFile' = NoSsmConfig
            \/ /\ Signs(c)
               /\ calls'[c].sub.signature
                    = Sign(calls'[c].sub.bytes, ssmFile.previousPublicKey,
                           ssmFile.previousPrivateKey)]_vars


\* C37: activateKey, called on a pending notary, returns exactly when the
\* $component of the document it is given is the stashed certificate,
\* whatever the $signature and the $certificate of the document, and then
\* leaves the file, the configuration and the controller of the SSM as
\* they were
C37_ActivationCondition ==
    [][(result'.op = "activateKey" /\ notaryFile.state = "pending")
        => /\ Succeeded(result')
                = /\ HasKey(result'.certificate, "$component")
                  /\ ComponentOf(result'.certificate) = notaryFile.certificate
           /\ Succeeded(result') => ssmVars' = ssmVars /\ notaryFile'.state = "enabled"]_vars

\* activateKey has accepted the certificate in a document whose signature
\* nobody's key verifies
C37_Witness ==
    /\ Returned("activateKey")
    /\ notaryFile.state = "enabled"
    /\ GetValue(result.certificate, "$signature").signer = 0
    /\ ComponentOf(notaryFile.certificate) = ComponentOf(result.certificate)


\* C38: when forgetKey has returned or thrown, the SSM has lost its file
\* and its configuration only if the notary holds no certificate in its
\* file or in memory, and the notary has lost its file only if the SSM has
\* lost its own; with no call in progress the notary is never enabled
\* while the SSM has no file
C38_AsStated ==
    /\ (calls[1].op = "forgetKey" /\ calls[1].pc = "done")
            => /\ (ssmFile = NoSsmConfig /\ ssmConfig = NoSsmConfig)
                    => /\ notaryFile.certificate = Undefined
                       /\ notaryConfig.certificate = Undefined
               /\ notaryFile = NoNotaryConfig => ssmFile = NoSsmConfig
    /\ Free(1) => ~(ssmFile = NoSsmConfig /\ notaryFile.state = "enabled")

(***************************************************************************)
(* The caller of the v1 notary key                                         *)
(***************************************************************************)
NewNotaryKeyOp ==
    /\ nextKey <= MaxKeys
    /\ nextTag <= MaxTags
    /\ LET this == NotaryKey(nextTag, nextKey)
       IN  legacy' = [legacy EXCEPT !.notaryKey = this, !.chain = <<this.certificate>>,
                                    !.op = "NotaryKey",
                                    !.certificate = NoLegacy.certificate,
                                    !.given = NoLegacy.given, !.isValid = FALSE]
    /\ nextKey' = nextKey + 1
    /\ nextTag' = nextTag + 1
    /\ UNCHANGED <<now, ssmVars, notaryVars, heldDoc, heldCert, heldKey, result, calls>>

RegenerateKeyOp ==
    /\ legacy.notaryKey # NoLegacy.notaryKey
    /\ nextKey <= MaxKeys
    /\ nextTag <= MaxTags
    /\ LET this == regenerateKey(legacy.notaryKey, nextTag, nextKey)
       IN  legacy' = [legacy EXCEPT !.notaryKey = this, !.chain = Append(@, this.certificate),
                                    !.op = "regenerateKey",
                                    !.certificate = NoLegacy.certificate,
                                    !.given = NoLegacy.given, !.isValid = FALSE]
    /\ nextKey' = nextKey + 1
    /\ nextTag' = nextTag + 1
    /\ UNCHANGED <<now, ssmVars, notaryVars, heldDoc, heldCert, heldKey, result, calls>>

\* the caller has the key notarize a new document or the one it holds
NotarizeDocumentOp ==
    \E document \in {parseDocument([version |-> "v1", tag |-> 0, key |-> 0, content |-> n]) :
                        n \in 1..MaxContent} \cup {legacy.document} :
        /\ legacy.notaryKey # NoLegacy.notaryKey
        /\ Len(document.seals) < MaxSeals
        /\ legacy' = [legacy EXCEPT !.document = notarizeDocument(legacy.notaryKey, document),
                                    !.op = "notarizeDocument",
                                    !.certificate = NoLegacy.certificate,
                                    !.given = NoLegacy.given, !.isValid = FALSE]
        /\ UNCHANGED <<now, nextKey, nextTag, ssmVars, notaryVars, heldDoc, heldCert, heldKey,
                       result, calls>>

\* the caller asks one of the certificates the key has had about a sealed
\* document it has: the one it holds or the document of such a certificate
DocumentIsValidOp ==
    \E i \in DOMAIN legacy.chain,
       document \in {legacy.document}
                        \cup {CertificateDocument(legacy.chain[j]) : j \in DOMAIN legacy.chain} :
        /\ document.seals # <<>>
        /\ legacy' = [legacy EXCEPT !.op = "documentIsValid",
                                    !.certificate = legacy.chain[i], !.given = document,
                                    !.isValid = documentIsValid(legacy.chain[i], document)]
        /\ UNCHANGED <<now, nextKey, nextTag, ssmVars, notaryVars, heldDoc, heldCert, heldKey,
                       result, calls>>

LegacySpec ==
    Init /\ [][NewNotaryKeyOp
               \/ RegenerateKeyOp
               \/ NotarizeDocumentOp
               \/ DocumentIsValidOp]_vars

\* C39: when regenerateKey of the v1 notary key has run, the document of the
\* new certificate carries exactly two seals in this order: the first is
\* the old citation with the old private key's signature of the unsealed
\* document followed by the old citation, the second is the new temporary
\* citation with the new private key's signature of the once-sealed
\* document followed by that citation; the key's tag and private key are
\* the new ones and its citation is the new reference with the hash of the
\* twice-sealed document; and documentIsValid of the new certificate
\* accepts that document, although the new public key does not verify its
\* first seal.
C39_RegenerateSealsTwice ==
    [][(legacy'.op = "regenerateKey" /\ nextKey' = nextKey + 1)
        => LET old == legacy.notaryKey
               new == legacy'.notaryKey
               document == CertificateDocument(new.certificate)
               unsealed == [version |-> "v1", tag |-> nextTag, key |-> PublicKey(nextKey),
                            content |-> 0, seals |-> <<>>]
               first == [citation |-> old.citation,
                         signature |-> [signed |-> [document |-> unsealed,
                                                    citation |-> old.citation],
                                        by |-> old.key]]
               once == [unsealed EXCEPT !.seals = <<first>>]
               temporary == [reference |-> nextTag, hash |-> <<>>]
               second == [citation |-> temporary,
                          signature |-> [signed |-> [document |-> once,
                                                     citation |-> temporary],
                                         by |-> PrivateKey(nextKey)]]
           IN  /\ old.key = PrivateKey(old.certificate.key)
               /\ document.seals = <<first, second>>
               /\ new.tag = nextTag
               /\ new.key = PrivateKey(nextKey)
               /\ new.citation = [reference |-> nextTag, hash |-> <<[sha512 |-> document]>>]
               /\ new.certificate.tag = nextTag
               /\ new.certificate.key = PublicKey(nextKey)
               /\ documentIsValid(new.certificate, document)
               /\ ~verify(new.certificate.key, first.signature.signed, first.signature)]_vars

\* regenerateKey has run on a key the constructor made, and the caller has
\* had documentIsValid of the new certificate accept the document of the
\* new certificate, which has two seals
C39_Witness ==
    /\ legacy.op = "documentIsValid"
    /\ legacy.isValid
    /\ Len(legacy.chain) = 2
    /\ legacy.notaryKey.certificate = legacy.chain[2]
    /\ legacy.notaryKey.key = PrivateKey(legacy.chain[2].key)
    /\ legacy.certificate = legacy.chain[2]
    /\ legacy.given = CertificateDocument(legacy.chain[2])
    /\ Len(legacy.given.seals) = 2
    /\ legacy.given.seals[1].signature.by = PrivateKey(legacy.chain[1].key)

====
